---- MODULE Spec2Model ----
(***************************************************************************)
(* A model of the yardstick engine's execution pipeline: the restricted    *)
(* JSONPath evaluator, the system invoker, the output extractor, the       *)
(* exact-match scorer, the mean aggregator and the run orchestrator        *)
(* (run_benchmark / _run_system / _run_case).                              *)
(*                                                                         *)
(* Python strings are sequences of one-character strings, so that strip,   *)
(* lower, split and the path grammar are computed character by character.  *)
(* JSON values are tagged records; a JSON object is the sequence of its    *)
(* key/value pairs in insertion order, as a Python dict keeps them.        *)
(***************************************************************************)
EXTENDS Integers, Sequences, FiniteSets, TLC

\* ------------------------------------------------------------------ bounds

\* Longest dataset a run is given.
MaxCases == 2

\* Largest reading of the wall clock.
MaxClock == 1

\* Most invocations of a run that is made a second time with the same answers.
MaxReplay == 3

\* Longest list of metric values handed to the aggregator on its own.
MaxValues == 5

\* Longest path expression built from every character of the alphabet.
MaxPathLen == 3

\* Most lines of a dataset file loaded on its own.
MaxLines == 4

\* ------------------------------------------------------------- JSON values

\* Python's None and JSON null are the same value.
None == [t |-> "null"]
JBool(b) == [t |-> "bool", b |-> b]
JNum(n) == [t |-> "num", n |-> n]
JStr(s) == [t |-> "str", s |-> s]
JList(xs) == [t |-> "list", xs |-> xs]
JObj(kvs) == [t |-> "obj", kv |-> kvs]

\* type(value).__name__
TypeName(v) ==
    CASE v.t = "null" -> "NoneType"
      [] v.t = "bool" -> "bool"
      [] v.t = "num" -> "int"
      [] v.t = "str" -> "str"
      [] v.t = "list" -> "list"
      [] v.t = "obj" -> "dict"

\* isinstance(current, dict)
IsDict(v) == v.t = "obj"

\* field in current, for a dict
HasKey(v, k) == \E i \in 1..Len(v.kv) : v.kv[i].k = k

\* The value of a dict's first item, whatever the key asked for.
GetFirstValue(v, k) == v.kv[1].v

\* current[field], for a dict holding the key
GetKey(v, k) == v.kv[CHOOSE i \in 1..Len(v.kv) : v.kv[i].k = k].v

\* ---------------------------------------------------------------- strings

Whitespace == {" ", "\t", "\n"}
LowerSeq == <<"a", "b", "c", "d", "e", "f", "g", "h", "i", "j", "k", "l", "m",
              "n", "o", "p", "q", "r", "s", "t", "u", "v", "w", "x", "y", "z">>
UpperSeq == <<"A", "B", "C", "D", "E", "F", "G", "H", "I", "J", "K", "L", "M",
              "N", "O", "P", "Q", "R", "S", "T", "U", "V", "W", "X", "Y", "Z">>
DigitSeq == <<"0", "1", "2", "3", "4", "5", "6", "7", "8", "9">>
Range(f) == {f[i] : i \in DOMAIN f}
Letters == Range(LowerSeq) \cup Range(UpperSeq)
Digits == Range(DigitSeq)

RECURSIVE LStrip(_)
LStrip(s) == IF s # <<>> /\ Head(s) \in Whitespace THEN LStrip(Tail(s)) ELSE s

RECURSIVE RStrip(_)
RStrip(s) ==
    IF s # <<>> /\ s[Len(s)] \in Whitespace
    THEN RStrip(SubSeq(s, 1, Len(s) - 1))
    ELSE s

\* str.strip()
Strip(s) == RStrip(LStrip(s))

\* str.split(sep) for a one-character separator
RECURSIVE Split(_, _)
Split(s, sep) ==
    IF \A i \in 1..Len(s) : s[i] # sep
    THEN <<s>>
    ELSE LET i == CHOOSE j \in 1..Len(s) :
                      s[j] = sep /\ \A m \in 1..(j - 1) : s[m] # sep
         IN <<SubSeq(s, 1, i - 1)>> \o Split(SubSeq(s, i + 1, Len(s)), sep)

\* ---------------------------------------------------------------- jsonpath

\* [a-zA-Z_]
IsIdentStart(c) == c \in Letters \cup {"_"}
\* [a-zA-Z0-9_]
IsIdentChar(c) == c \in Letters \cup Digits \cup {"_"}

\* The number of leading characters of s that are identifier characters.
RECURSIVE IdentRun(_)
IdentRun(s) ==
    IF s # <<>> /\ IsIdentChar(Head(s)) THEN 1 + IdentRun(Tail(s)) ELSE 0

\* (?:\.([a-zA-Z_][a-zA-Z0-9_]*))*$ on what follows the root symbol
RECURSIVE MatchSegments(_)
MatchSegments(s) ==
    \/ s = <<>>
    \/ /\ Len(s) >= 2
       /\ s[1] = "."
       /\ IsIdentStart(s[2])
       /\ LET n == IdentRun(SubSeq(s, 2, Len(s)))
          IN MatchSegments(SubSeq(s, n + 2, Len(s)))

\* The pattern without its closing anchor: any text after the longest run of
\* segments is let through.
PatternMatchUnanchored(path) == path # <<>> /\ path[1] = "$"

\* _JSONPATH_PATTERN.match(path)
PatternMatch(path) ==
    /\ path # <<>>
    /\ path[1] = "$"
    /\ MatchSegments(Tail(path))

PathOk(v) == [ok |-> TRUE, value |-> v]
PathErr(kind, field, traversed, type) ==
    [ok |-> FALSE, kind |-> kind, field |-> field, traversed |-> traversed,
     type |-> type]

\* The loop with the test for a non-object made before the test for null.
RECURSIVE TraverseTypeFirst(_, _, _)
TraverseTypeFirst(current, fields, traversed) ==
    IF fields = <<>>
    THEN PathOk(current)
    ELSE LET field == Head(fields)
             walked == traversed \o <<".">> \o field
         IN IF ~IsDict(current)
            THEN PathErr("non_object", field, walked, TypeName(current))
            ELSE IF ~HasKey(current, field)
            THEN PathErr("field_not_found", field, walked, "dict")
            ELSE TraverseTypeFirst(GetKey(current, field), Tail(fields), walked)

\* The loop of eval_jsonpath over the field names.
RECURSIVE Traverse(_, _, _)
Traverse(current, fields, traversed) ==
    IF fields = <<>>
    THEN PathOk(current)
    ELSE LET field == Head(fields)
             walked == traversed \o <<".">> \o field
         IN IF current = None
            THEN PathErr("null_access", field, walked, "NoneType")
            ELSE IF ~IsDict(current)
            THEN PathErr("non_object", field, walked, TypeName(current))
            ELSE IF ~HasKey(current, field)
            THEN PathErr("field_not_found", field, walked, "dict")
            ELSE Traverse(GetKey(current, field), Tail(fields), walked)

\* eval_jsonpath without path = path.strip().
eval_jsonpath_unstripped(obj, path) ==
    IF path.t # "str"
    THEN PathErr("not_a_string", <<>>, <<>>, TypeName(path))
    ELSE LET p == path.s
         IN IF p = <<>>
            THEN PathErr("empty", <<>>, p, "str")
            ELSE IF p[1] # "$"
            THEN PathErr("no_root", <<>>, p, "str")
            ELSE IF ~PatternMatch(p)
            THEN PathErr("invalid_syntax", <<>>, p, "str")
            ELSE IF p = <<"$">>
            THEN PathOk(obj)
            ELSE Traverse(obj, Split(SubSeq(p, 3, Len(p)), "."), <<"$">>)

\* eval_jsonpath(obj, path); the path is a Python value, a str when path.t = "str".
eval_jsonpath(obj, path) ==
    IF path.t # "str"
    THEN PathErr("not_a_string", <<>>, <<>>, TypeName(path))
    ELSE LET p == Strip(path.s)
         IN IF p = <<>>
            THEN PathErr("empty", <<>>, p, "str")
            ELSE IF p[1] # "$"
            THEN PathErr("no_root", <<>>, p, "str")
            ELSE IF ~PatternMatch(p)
            THEN PathErr("invalid_syntax", <<>>, p, "str")
            ELSE IF p = <<"$">>
            THEN PathOk(obj)
            ELSE Traverse(obj, Split(SubSeq(p, 3, Len(p)), "."), <<"$">>)

\* ----------------------------------------------------------------- metrics

\* str.lower(), one character
LowerChar(c) ==
    IF \E i \in DOMAIN UpperSeq : UpperSeq[i] = c
    THEN LowerSeq[CHOOSE i \in DOMAIN UpperSeq : UpperSeq[i] = c]
    ELSE c

\* str.lower()
Lower(s) == [i \in 1..Len(s) |-> LowerChar(s[i])]

\* str(n) for an integer n
RECURSIVE NatText(_)
NatText(n) ==
    IF n < 10 THEN <<DigitSeq[n + 1]>>
    ELSE NatText(n \div 10) \o <<DigitSeq[(n % 10) + 1]>>

IntText(n) == IF n < 0 THEN <<"-">> \o NatText(0 - n) ELSE NatText(n)

\* s.join(parts)
RECURSIVE Join(_, _)
Join(parts, sep) ==
    IF parts = <<>> THEN <<>>
    ELSE IF Len(parts) = 1 THEN parts[1]
    ELSE parts[1] \o sep \o Join(Tail(parts), sep)

\* repr(value): as str(value), but a string is quoted.
RECURSIVE Repr(_)
Repr(v) ==
    CASE v.t = "null" -> <<"N", "o", "n", "e">>
      [] v.t = "bool" -> IF v.b THEN <<"T", "r", "u", "e">>
                         ELSE <<"F", "a", "l", "s", "e">>
      [] v.t = "num" -> IntText(v.n)
      [] v.t = "str" -> <<"'">> \o v.s \o <<"'">>
      [] v.t = "list" ->
            <<"[">> \o Join([i \in 1..Len(v.xs) |-> Repr(v.xs[i])], <<",", " ">>)
                    \o <<"]">>
      [] v.t = "obj" ->
            <<"{">> \o Join([i \in 1..Len(v.kv) |->
                               <<"'">> \o v.kv[i].k \o <<"'", ":", " ">>
                                       \o Repr(v.kv[i].v)],
                            <<",", " ">>)
                    \o <<"}">>

\* str(value)
Str(v) == IF v.t = "str" THEN v.s ELSE Repr(v)

\* _normalize without .lower().
_normalize_case_sensitive(value) == Strip(Str(value))

\* _normalize(value)
_normalize(value) == Strip(Lower(Str(value)))

\* MetricError(message): code is always metric_failed
MetricError(side, path, cause) ==
    [ok |-> FALSE, code |-> "metric_failed",
     message |-> [side |-> side, path |-> path, cause |-> cause]]

\* score_exact_match with the reference value extracted before the predicted.
score_exact_match_reference_first(extracted_output, reference, pred_path, ref_path) ==
    LET ref == eval_jsonpath(reference, ref_path)
    IN IF ~ref.ok
       THEN MetricError("reference", ref_path, ref)
       ELSE LET pred == eval_jsonpath(extracted_output, pred_path)
            IN IF ~pred.ok
               THEN MetricError("predicted", pred_path, pred)
               ELSE [ok |-> TRUE,
                     value |-> (_normalize(pred.value) = _normalize(ref.value))]

\* score_exact_match(extracted_output, reference, pred_path, ref_path)
score_exact_match(extracted_output, reference, pred_path, ref_path) ==
    LET pred == eval_jsonpath(extracted_output, pred_path)
    IN IF ~pred.ok
       THEN MetricError("predicted", pred_path, pred)
       ELSE LET ref == eval_jsonpath(reference, ref_path)
            IN IF ~ref.ok
               THEN MetricError("reference", ref_path, ref)
               ELSE [ok |-> TRUE,
                     value |-> (_normalize(pred.value) = _normalize(ref.value))]

\* The parameters score_exact_match declares.
ScoreParams == <<"extracted_output", "reference", "pred_path", "ref_path">>

\* -------------------------------------------------------------- extraction

\* extract_output(response_json, output_json_path)
extract_output(response_json, output_json_path) ==
    LET r == eval_jsonpath(response_json, output_json_path)
    IN IF r.ok
       THEN r
       ELSE [ok |-> FALSE, code |-> "output_extraction_failed",
             message |-> r, path |-> output_json_path]

\* ----------------------------------------------------------------- systems

\* What the transport does with one POST: httpx.post raises an exception, or
\* a response arrives with a status and a body that either parses to a JSON
\* value or does not.  An exception is known by the classes it is an instance
\* of: httpx.TimeoutException is itself a httpx.RequestError.
Timeout ==
    [kind |-> "raises",
     mro |-> {"ReadTimeout", "TimeoutException", "TransportError", "RequestError"},
     status |-> 0, parses |-> FALSE, json |-> None]
ConnectError ==
    [kind |-> "raises",
     mro |-> {"ConnectError", "NetworkError", "TransportError", "RequestError"},
     status |-> 0, parses |-> FALSE, json |-> None]
Response(status, parses, json) ==
    [kind |-> "response", mro |-> {}, status |-> status, parses |-> parses,
     json |-> json]

\* response.is_success
is_success(status) == status >= 200 /\ status <= 299

\* An InvokeError that always carries a status.
InvokeErrorStatusAlways(code, message, http_status) ==
    [ok |-> FALSE, code |-> code, message |-> message, http_status |-> JNum(0)]

\* InvokeError(code, message, http_status=None)
InvokeError(code, message, http_status) ==
    [ok |-> FALSE, code |-> code, message |-> message,
     http_status |-> http_status]

\* invoke_case with the two except clauses in the other order.
invoke_case_request_error_first(system, body, o) ==
    IF o.kind = "raises" /\ "RequestError" \in o.mro
    THEN InvokeError("http_error", <<system.endpoint, "failed">>, None)
    ELSE IF o.kind = "raises" /\ "TimeoutException" \in o.mro
    THEN InvokeError("timeout", <<system.endpoint, "timed out">>, None)
    ELSE IF ~is_success(o.status)
    THEN InvokeError("http_error", <<system.endpoint, "returned status">>,
                     JNum(o.status))
    ELSE IF ~o.parses
    THEN InvokeError("invalid_json", <<system.endpoint, "not valid JSON">>, None)
    ELSE [ok |-> TRUE, value |-> o.json]

\* invoke_case(system, body), given what the transport does with the request
invoke_case(system, body, o) ==
    IF o.kind = "raises" /\ "TimeoutException" \in o.mro
    THEN InvokeError("timeout", <<system.endpoint, "timed out">>, None)
    ELSE IF o.kind = "raises" /\ "RequestError" \in o.mro
    THEN InvokeError("http_error", <<system.endpoint, "failed">>, None)
    ELSE IF ~is_success(o.status)
    THEN InvokeError("http_error", <<system.endpoint, "returned status">>,
                     JNum(o.status))
    ELSE IF ~o.parses
    THEN InvokeError("invalid_json", <<system.endpoint, "not valid JSON">>, None)
    ELSE [ok |-> TRUE, value |-> o.json]

\* ----------------------------------------------------------------- results

\* ErrorInfo(code, message, http_status=None)
ErrorInfo(code, message, http_status) ==
    [code |-> code, message |-> message, http_status |-> http_status]

\* CaseResult(case_id, extracted_output=None, metrics=None, error=None)
CaseResult(case_id, extracted_output, metrics, error) ==
    [case_id |-> case_id, extracted_output |-> extracted_output,
     metrics |-> metrics, error |-> error]

\* SystemResult(system_name, primary_metric, aggregates, case_results, error_counts)
SystemResult(system_name, primary_metric, aggregates, results, error_counts) ==
    [system_name |-> system_name, primary_metric |-> primary_metric,
     aggregates |-> aggregates, case_results |-> results,
     error_counts |-> error_counts]

\* A RunResult whose benchmark_id has the start time folded into it.
RunResultStampedId(bspec, started, finished, results) ==
    [benchmark_id |-> <<bspec.id, started>>,
     benchmark_version |-> bspec.version,
     dataset_path |-> bspec.dataset.path, started_at |-> started,
     finished_at |-> finished, systems |-> results]

\* A RunResult with the two times in each other's place.
RunResultTimesSwapped(bspec, started, finished, results) ==
    [benchmark_id |-> bspec.id, benchmark_version |-> bspec.version,
     dataset_path |-> bspec.dataset.path, started_at |-> finished,
     finished_at |-> started, systems |-> results]

\* RunResult(benchmark_id, benchmark_version, dataset_path, started_at,
\*           finished_at, systems)
RunResult(bspec, started, finished, results) ==
    [benchmark_id |-> bspec.id, benchmark_version |-> bspec.version,
     dataset_path |-> bspec.dataset.path, started_at |-> started,
     finished_at |-> finished, systems |-> results]

\* A Python dict is the sequence of its items in insertion order.
DictHas(d, k) == \E i \in 1..Len(d) : d[i].k = k
DictGet(d, k) == d[CHOOSE i \in 1..Len(d) : d[i].k = k].v
DictKeys(d) == [i \in 1..Len(d) |-> d[i].k]

\* ------------------------------------------------------------- aggregation

RECURSIVE sum(_)
sum(values) == IF values = <<>> THEN 0
               ELSE (IF Head(values) THEN 1 ELSE 0) + sum(Tail(values))

RECURSIVE Gcd(_, _)
Gcd(a, b) == IF b = 0 THEN a ELSE Gcd(b, a % b)

\* The float n / d, kept as the fraction in lowest terms.
Float(n, d) == [num |-> n \div Gcd(n, d), den |-> d \div Gcd(n, d)]

\* The mean taken with integer division, as sum(values) // len(values).
aggregate_mean_floor_division(values) ==
    IF values = <<>> THEN Float(0, 1)
    ELSE Float(sum(values) \div Len(values), 1)

\* aggregate_mean(values)
aggregate_mean(values) ==
    IF values = <<>> THEN Float(0, 1) ELSE Float(sum(values), Len(values))

\* ------------------------------------------------------------------ runner

\* The outcome of a call: it returns a value or an exception leaves it.
Returned(value, stages) ==
    [raised |-> FALSE, exc |-> "", value |-> value, stages |-> stages]
Raised(exc, stages) ==
    [raised |-> TRUE, exc |-> exc, value |-> None, stages |-> stages]

\* Attribute access on a model object: the fields the class declares.
HasAttr(obj, name) == name \in DOMAIN obj
GetAttr(obj, name) == obj[name]

\* An invocation failure that is swallowed: a CaseResult with nothing set.
CaseInvokeErrorSwallowed(case, e) == CaseResult(case.id, None, None, None)

\* _run_case, except InvokeError
CaseInvokeError(case, e) ==
    CaseResult(case.id, None, None, ErrorInfo(e.code, e.message, e.http_status))

\* _run_case, except ExtractionError
CaseExtractionError(case, e) ==
    CaseResult(case.id, None, None, ErrorInfo(e.code, e.message, None))

\* _run_case, except MetricError
CaseMetricError(case, extracted_output, e) ==
    CaseResult(case.id, extracted_output, None,
               ErrorInfo(e.code, e.message, None))

\* _run_case, the successful return
CaseSuccess(case, extracted_output, metric_config, exact_match) ==
    CaseResult(case.id, extracted_output,
               JObj(<<[k |-> metric_config.name, v |-> exact_match]>>), None)

\* Step 4 of _run_case: read the metric's configuration and call the scorer.
ScoreStep(case, bspec, extracted_output) ==
    LET stages == <<"invoke", "extract", "score">>
        metric_config == bspec.scoring.metrics[1]
        pred_path == metric_config.args.pred_path
        ref_path == metric_config.args.ref_path
        normalize == metric_config.args.normalize
    IN IF ~HasAttr(normalize, "strip_punctuation")
       THEN Raised("AttributeError", stages)
       ELSE LET args == <<extracted_output, case.reference, pred_path,
                          ref_path, GetAttr(normalize, "strip_punctuation")>>
            IN IF Len(args) # Len(ScoreParams)
               THEN Raised("TypeError", stages)
               ELSE LET m == score_exact_match(args[1], args[2], args[3],
                                               args[4])
                    IN IF ~m.ok
                       THEN Returned(CaseMetricError(case, extracted_output, m),
                                     stages)
                       ELSE Returned(CaseSuccess(case, extracted_output,
                                                 metric_config, m.value),
                                     stages)

\* _run_case(case, system, spec), given what the transport does
_run_case(case, system, bspec, o) ==
    LET body == case.input
        response == invoke_case(system, body, o)
    IN IF ~response.ok
       THEN Returned(CaseInvokeError(case, response), <<"invoke">>)
       ELSE LET output_json_path == bspec.contract.response.output_json_path
                extracted == extract_output(response.value, output_json_path)
            IN IF ~extracted.ok
               THEN Returned(CaseExtractionError(case, extracted),
                             <<"invoke", "extract">>)
               ELSE ScoreStep(case, bspec, extracted.value)

\* A result put at the front of the list instead of its end.
AppendCaseResultFront(results, r) == <<r>> \o results

\* case_results.append(result)
AppendCaseResult(results, r) == Append(results, r)

\* A system's result put at the front of the list instead of its end.
AppendSystemResultFront(results, r) == <<r>> \o results

\* system_results.append(result)
AppendSystemResult(results, r) == Append(results, r)

\* A counter that notes a code once and never counts it again.
CounterAddOnce(counter, code) ==
    IF DictHas(counter, code) THEN counter
    ELSE Append(counter, [k |-> code, v |-> 1])

\* error_counter[code] += 1 on a Counter
CounterAdd(counter, code) ==
    IF DictHas(counter, code)
    THEN [i \in 1..Len(counter) |->
            IF counter[i].k = code
            THEN [k |-> code, v |-> counter[i].v + 1]
            ELSE counter[i]]
    ELSE Append(counter, [k |-> code, v |-> 1])

\* The spelling of the error codes, and the order of their characters.
CodeText(code) ==
    CASE code = "timeout" -> <<"t", "i", "m", "e", "o", "u", "t">>
      [] code = "http_error" ->
            <<"h", "t", "t", "p", "_", "e", "r", "r", "o", "r">>
      [] code = "invalid_json" ->
            <<"i", "n", "v", "a", "l", "i", "d", "_", "j", "s", "o", "n">>
      [] code = "output_extraction_failed" ->
            <<"o", "u", "t", "p", "u", "t", "_", "e", "x", "t", "r", "a", "c",
              "t", "i", "o", "n", "_", "f", "a", "i", "l", "e", "d">>
      [] code = "metric_failed" ->
            <<"m", "e", "t", "r", "i", "c", "_", "f", "a", "i", "l", "e", "d">>

\* ord(c) for the characters of the codes: "_" sorts before the letters.
Ord(c) == IF c = "_" THEN 95
          ELSE 96 + (CHOOSE i \in DOMAIN LowerSeq : LowerSeq[i] = c)

\* s < t on strings
RECURSIVE StrLess(_, _)
StrLess(s, t) ==
    IF t = <<>> THEN FALSE
    ELSE IF s = <<>> THEN TRUE
    ELSE IF Ord(Head(s)) # Ord(Head(t)) THEN Ord(Head(s)) < Ord(Head(t))
    ELSE StrLess(Tail(s), Tail(t))

\* sorted(items) on (key, count) pairs with distinct keys: insertion sort
RECURSIVE sorted(_)
sorted(items) ==
    IF items = <<>> THEN <<>>
    ELSE LET rest == sorted(Tail(items))
             x == Head(items)
             n == Cardinality({i \in 1..Len(rest) :
                                 StrLess(CodeText(rest[i].k), CodeText(x.k))})
         IN SubSeq(rest, 1, n) \o <<x>> \o SubSeq(rest, n + 1, Len(rest))

\* The counter's items as they were inserted, unsorted.
UnsortedErrorCounts(counter) == counter

\* dict(sorted(error_counter.items()))
SortedErrorCounts(counter) == sorted(counter)

\* ------------------------------------------------------------------ inputs

\* A specification document accepted by load_spec, as the BenchmarkSpec it
\* becomes; the three path expressions are the fields a document may vary.
BenchmarkSpec(output_json_path, pred_path, ref_path) ==
    [id |-> "bench", name |-> "Bench", version |-> 1,
     dataset |-> [path |-> "dataset.jsonl"],
     contract |->
        [protocol |-> "http",
         request |-> [method |-> "POST",
                      body_json_path |-> JStr(<<"$", ".", "i", "n", "p", "u", "t">>)],
         response |-> [output_json_path |-> output_json_path]],
     scoring |->
        [metrics |-> <<[name |-> "exact_match", type |-> "exact_match",
                        args |-> [pred_path |-> pred_path,
                                  ref_path |-> ref_path,
                                  normalize |-> [lowercase |-> TRUE,
                                                 strip_whitespace |-> TRUE]]]>>,
         primary_metric |-> "exact_match"],
     reporting |->
        [aggregate |-> <<[name |-> "exact_match_rate", type |-> "mean",
                          metric |-> "exact_match"]>>]]

PathRoot == JStr(<<"$">>)
PathA == JStr(<<"$", ".", "a">>)

SpecPool ==
    {BenchmarkSpec(PathRoot, PathA, PathA),
     BenchmarkSpec(PathA, PathRoot, PathA)}

\* Case(id, input, reference)
Case(id, input, reference) == [id |-> id, input |-> input, reference |-> reference]

Answer(key, text) == JObj(<<[k |-> <<key>>, v |-> JStr(text)]>>)

\* Datasets: the leading cases of a file, in one order or the other.
CaseOrders ==
    {<<Case("c1", Answer("q", <<"1">>), Answer("a", <<"2">>)),
       Case("c2", Answer("q", <<"2">>), Answer("a", <<"4">>)),
       Case("c3", Answer("q", <<"3">>), Answer("b", <<"6">>))>>,
     <<Case("c3", Answer("q", <<"3">>), Answer("b", <<"6">>)),
       Case("c2", Answer("q", <<"2">>), Answer("a", <<"4">>)),
       Case("c1", Answer("q", <<"1">>), Answer("a", <<"2">>))>>}

CaseLists ==
    {SubSeq(order, 1, n) :
        order \in CaseOrders, n \in {k \in 0..MaxCases : k <= 3}}

\* SystemConfig(name, endpoint)
SystemConfig(name, endpoint) == [name |-> name, endpoint |-> endpoint]

SystemPool ==
    {SystemConfig("alpha", "http://alpha"), SystemConfig("beta", "http://beta")}

\* The sequences over S of at most n elements, none repeated.
RECURSIVE ListsOf(_, _)
ListsOf(S, n) ==
    IF n = 0 THEN {<<>>}
    ELSE LET shorter == ListsOf(S, n - 1)
         IN shorter \cup
            UNION {{Append(l, x) : x \in S \ Range(l)} :
                     l \in {m \in shorter : Len(m) = n - 1}}

\* The JSON values a system answers with.
ResponsePool ==
    {Answer("a", <<" ", "2">>), Answer("a", <<"5">>), Answer("b", <<"2">>)}

\* What the transport may do with one request.
Outcomes ==
    {Timeout, ConnectError, Response(500, TRUE, Answer("a", <<"2">>)),
     Response(200, FALSE, None)}
    \cup {Response(200, TRUE, v) : v \in ResponsePool}

\* ------------------------------------------------------------------- state

VARIABLES
    spec,            \* run_benchmark's spec argument
    cases,           \* run_benchmark's cases argument
    systems,         \* run_benchmark's systems argument
    pc,              \* where run_benchmark is
    sys_idx,         \* the position of `for system in systems`
    case_idx,        \* the position of `for case in cases`
    case_results,    \* _run_system's case_results
    error_counter,   \* _run_system's error_counter
    metric_values,   \* _run_system's metric_values
    system_results,  \* run_benchmark's system_results
    started_at,      \* run_benchmark's started_at
    now,             \* the wall clock's last reading
    result,          \* the RunResult run_benchmark returned
    exc,             \* the exception that left run_benchmark
    inv_log,         \* history: every invocation made, with what it met
    run_no,          \* 1, or 2 when the same run is being made again
    first,           \* how the first of two runs ended
    args,            \* the command line and the files it names
    exit_code,       \* what the command returned
    call,            \* a function called on its own, with its arguments
    ret              \* what that call returned or raised

vars == <<spec, cases, systems, pc, sys_idx, case_idx, case_results,
          error_counter, metric_values, system_results, started_at, now,
          result, exc, inv_log, run_no, first, args, exit_code, call, ret>>

inputs == <<spec, cases, systems>>

\* What belongs to the caller of run_benchmark, not to the run.
outer == <<args, exit_code, call, ret>>

Init ==
    /\ spec \in SpecPool
    /\ cases \in CaseLists
    /\ systems \in ListsOf(SystemPool, Cardinality(SystemPool))
    /\ pc = "start"
    /\ sys_idx = 0
    /\ case_idx = 0
    /\ case_results = <<>>
    /\ error_counter = <<>>
    /\ metric_values = <<>>
    /\ system_results = <<>>
    /\ started_at = None
    /\ now = 0
    /\ result = None
    /\ exc = ""
    /\ inv_log = <<>>
    /\ run_no = 1
    /\ first = None
    /\ args = None
    /\ exit_code = None
    /\ call = None
    /\ ret = None

\* What the transport does with the next request: anything on a first run,
\* and on a second run what it did with the same request of the first.
Answers ==
    IF run_no = 1 THEN Outcomes ELSE {first.log[Len(inv_log) + 1].outcome}

\* run_benchmark: started_at = datetime.now(); system_results = []
\* The clock reads the time of the call.
Start ==
    /\ pc = "start"
    /\ started_at' = JNum(now)
    /\ system_results' = <<>>
    /\ sys_idx' = 1
    /\ pc' = "systems"
    /\ UNCHANGED <<outer, inputs, case_idx, case_results, error_counter,
                   metric_values, now, result, exc, inv_log, run_no, first>>

\* _run_system: the locals before the loop over the cases
BeginSystem ==
    /\ pc = "systems"
    /\ sys_idx <= Len(systems)
    /\ case_results' = <<>>
    /\ error_counter' = <<>>
    /\ metric_values' = <<>>
    /\ case_idx' = 1
    /\ pc' = "cases"
    /\ UNCHANGED <<outer, inputs, sys_idx, system_results, started_at, now, result,
                   exc, inv_log, run_no, first>>

\* _run_system: one turn of `for case in cases`, _run_case included
RunCase ==
    /\ pc = "cases"
    /\ case_idx <= Len(cases)
    /\ \E o \in Answers :
          LET case == cases[case_idx]
              system == systems[sys_idx]
              metric_name == spec.scoring.primary_metric
              r == _run_case(case, system, spec, o)
          IN /\ inv_log' = Append(inv_log,
                                  [sys |-> sys_idx, idx |-> case_idx,
                                   system |-> system.name, case_id |-> case.id,
                                   body |-> case.input, outcome |-> o,
                                   stages |-> r.stages])
             /\ IF r.raised
                THEN /\ pc' = "raised"
                     /\ exc' = r.exc
                     /\ UNCHANGED <<case_idx, case_results, error_counter,
                                    metric_values>>
                ELSE /\ case_results' = AppendCaseResult(case_results, r.value)
                     /\ error_counter' =
                           IF r.value.error # None
                           THEN CounterAdd(error_counter, r.value.error.code)
                           ELSE error_counter
                     /\ metric_values' =
                           IF r.value.error = None /\ r.value.metrics # None
                              /\ r.value.metrics.kv # <<>>
                           THEN Append(metric_values,
                                       GetKey(r.value.metrics, metric_name))
                           ELSE metric_values
                     /\ case_idx' = case_idx + 1
                     /\ UNCHANGED <<pc, exc>>
    /\ UNCHANGED <<outer, inputs, sys_idx, system_results, started_at, now, result,
                   run_no, first>>

\* _run_system after the loop, and run_benchmark's system_results.append
EndSystem ==
    /\ pc = "cases"
    /\ case_idx > Len(cases)
    /\ LET system == systems[sys_idx]
           metric_name == spec.scoring.primary_metric
           aggregate_config == spec.reporting.aggregate[1]
           aggregate_value == aggregate_mean(metric_values)
           sorted_error_counts == SortedErrorCounts(error_counter)
       IN system_results' =
             AppendSystemResult(system_results,
                    SystemResult(system.name, metric_name,
                                 <<[k |-> aggregate_config.name,
                                    v |-> aggregate_value]>>,
                                 case_results, sorted_error_counts))
    /\ sys_idx' = sys_idx + 1
    /\ pc' = "systems"
    /\ UNCHANGED <<outer, inputs, case_idx, case_results, error_counter,
                   metric_values, started_at, now, result, exc, inv_log,
                   run_no, first>>

\* run_benchmark: finished_at = datetime.now(); return RunResult(...)
\* The clock reads a time not before the start: the run took t - now.
Finish ==
    /\ pc = "systems"
    /\ sys_idx > Len(systems)
    /\ \E t \in now..MaxClock :
          /\ now' = t
          /\ result' = RunResult(spec, started_at, JNum(t), system_results)
    /\ pc' = "done"
    /\ UNCHANGED <<outer, inputs, sys_idx, case_idx, case_results, error_counter,
                   metric_values, system_results, started_at, exc, inv_log,
                   run_no, first>>

Next == Start \/ BeginSystem \/ RunCase \/ EndSystem \/ Finish

Spec == Init /\ [][Next]_vars

\* ---------------------------------------------------------------- two runs

\* run_benchmark is called again with the same spec, cases and systems, some
\* time after the first call ended, and the transport answers as it did the
\* first time.
Rerun ==
    /\ run_no = 1
    /\ pc \in {"done", "raised"}
    /\ \E t \in now..MaxClock : now' = t
    /\ first' = [pc |-> pc, result |-> result, exc |-> exc, log |-> inv_log]
    /\ run_no' = 2
    /\ pc' = "start"
    /\ sys_idx' = 0
    /\ case_idx' = 0
    /\ case_results' = <<>>
    /\ error_counter' = <<>>
    /\ metric_values' = <<>>
    /\ system_results' = <<>>
    /\ started_at' = None
    /\ result' = None
    /\ exc' = ""
    /\ inv_log' = <<>>
    /\ UNCHANGED <<outer, inputs>>

InitTwice == Init /\ Len(systems) * Len(cases) <= MaxReplay

NextTwice == Next \/ Rerun

SpecTwice == InitTwice /\ [][NextTwice]_vars

\* -------------------------------------------------------------------- spec

\* A document is the value yaml.safe_load gives: a JSON value whose objects
\* are keyed by field names.  Field(d, k, ok) is pydantic's check of a required
\* field: d is a mapping, holds k, and the value passes ok.
IsStr(v) == v.t = "str"
IsMapping(v) == v.t = "obj"
Literal(v, s) == v = JStr(s)

\* DatasetConfig
ValidDatasetConfig(d) ==
    IsMapping(d) /\ HasKey(d, "path") /\ IsStr(GetKey(d, "path"))

\* The only body_json_path RequestConfig accepts.
InputPath == JStr(<<"$", ".", "i", "n", "p", "u", "t">>)

\* RequestConfig
ValidRequestConfig(d) ==
    /\ IsMapping(d)
    /\ HasKey(d, "method") /\ Literal(GetKey(d, "method"), "POST")
    /\ HasKey(d, "body_json_path") /\ GetKey(d, "body_json_path") = InputPath

\* ResponseConfig
ValidResponseConfig(d) ==
    /\ IsMapping(d)
    /\ HasKey(d, "output_json_path") /\ IsStr(GetKey(d, "output_json_path"))

\* ContractConfig
ValidContractConfig(d) ==
    /\ IsMapping(d)
    /\ HasKey(d, "protocol") /\ Literal(GetKey(d, "protocol"), "http")
    /\ HasKey(d, "request") /\ ValidRequestConfig(GetKey(d, "request"))
    /\ HasKey(d, "response") /\ ValidResponseConfig(GetKey(d, "response"))

\* NormalizeConfig
ValidNormalizeConfig(d) ==
    /\ IsMapping(d)
    /\ HasKey(d, "lowercase") /\ GetKey(d, "lowercase") = JBool(TRUE)
    /\ HasKey(d, "strip_whitespace")
    /\ GetKey(d, "strip_whitespace") = JBool(TRUE)

\* MetricArgs
ValidMetricArgs(d) ==
    /\ IsMapping(d)
    /\ HasKey(d, "pred_path") /\ IsStr(GetKey(d, "pred_path"))
    /\ HasKey(d, "ref_path") /\ IsStr(GetKey(d, "ref_path"))
    /\ HasKey(d, "normalize") /\ ValidNormalizeConfig(GetKey(d, "normalize"))

\* MetricConfig
ValidMetricConfig(d) ==
    /\ IsMapping(d)
    /\ HasKey(d, "name") /\ Literal(GetKey(d, "name"), "exact_match")
    /\ HasKey(d, "type") /\ Literal(GetKey(d, "type"), "exact_match")
    /\ HasKey(d, "args") /\ ValidMetricArgs(GetKey(d, "args"))

\* A ScoringConfig that takes any number of metrics and any primary metric.
ValidScoringConfigAnyMetrics(d) ==
    /\ IsMapping(d)
    /\ HasKey(d, "metrics")
    /\ GetKey(d, "metrics").t = "list"
    /\ Len(GetKey(d, "metrics").xs) >= 1
    /\ ValidMetricConfig(GetKey(d, "metrics").xs[1])
    /\ HasKey(d, "primary_metric")
    /\ IsStr(GetKey(d, "primary_metric"))

\* ScoringConfig, validate_metric_matches_primary included
ValidScoringConfig(d) ==
    /\ IsMapping(d)
    /\ HasKey(d, "metrics")
    /\ GetKey(d, "metrics").t = "list"
    /\ Len(GetKey(d, "metrics").xs) = 1
    /\ ValidMetricConfig(GetKey(d, "metrics").xs[1])
    /\ HasKey(d, "primary_metric")
    /\ Literal(GetKey(d, "primary_metric"), "exact_match")
    /\ GetKey(GetKey(d, "metrics").xs[1], "name") = GetKey(d, "primary_metric")

\* AggregateConfig
ValidAggregateConfig(d) ==
    /\ IsMapping(d)
    /\ HasKey(d, "name") /\ IsStr(GetKey(d, "name"))
    /\ HasKey(d, "type") /\ Literal(GetKey(d, "type"), "mean")
    /\ HasKey(d, "metric") /\ Literal(GetKey(d, "metric"), "exact_match")

\* ReportingConfig
ValidReportingConfig(d) ==
    /\ IsMapping(d)
    /\ HasKey(d, "aggregate")
    /\ GetKey(d, "aggregate").t = "list"
    /\ Len(GetKey(d, "aggregate").xs) = 1
    /\ ValidAggregateConfig(GetKey(d, "aggregate").xs[1])

\* BenchmarkSpec.model_validate(data) does not raise
ValidBenchmarkSpec(d) ==
    /\ IsMapping(d)
    /\ HasKey(d, "id") /\ IsStr(GetKey(d, "id"))
    /\ HasKey(d, "name") /\ IsStr(GetKey(d, "name"))
    /\ HasKey(d, "version") /\ GetKey(d, "version").t \in {"num", "str"}
    /\ HasKey(d, "dataset") /\ ValidDatasetConfig(GetKey(d, "dataset"))
    /\ HasKey(d, "contract") /\ ValidContractConfig(GetKey(d, "contract"))
    /\ HasKey(d, "scoring") /\ ValidScoringConfig(GetKey(d, "scoring"))
    /\ HasKey(d, "reporting") /\ ValidReportingConfig(GetKey(d, "reporting"))

\* The text or number a scalar field holds.
Scalar(v) == IF v.t = "num" THEN v.n ELSE v.s

\* The BenchmarkSpec that model_validate builds from a valid document: the
\* fields the models declare, and no other key of the document.
BuildBenchmarkSpec(d) ==
    LET contract == GetKey(d, "contract")
        scoring == GetKey(d, "scoring")
        metric == GetKey(scoring, "metrics").xs[1]
        margs == GetKey(metric, "args")
        normalize == GetKey(margs, "normalize")
        aggregate == GetKey(GetKey(d, "reporting"), "aggregate").xs[1]
    IN [id |-> GetKey(d, "id").s, name |-> GetKey(d, "name").s,
        version |-> Scalar(GetKey(d, "version")),
        dataset |-> [path |-> GetKey(GetKey(d, "dataset"), "path").s],
        contract |->
           [protocol |-> GetKey(contract, "protocol").s,
            request |->
               [method |-> GetKey(GetKey(contract, "request"), "method").s,
                body_json_path |->
                   GetKey(GetKey(contract, "request"), "body_json_path")],
            response |->
               [output_json_path |->
                   GetKey(GetKey(contract, "response"), "output_json_path")]],
        scoring |->
           [metrics |->
               <<[name |-> GetKey(metric, "name").s,
                  type |-> GetKey(metric, "type").s,
                  args |->
                     [pred_path |-> GetKey(margs, "pred_path"),
                      ref_path |-> GetKey(margs, "ref_path"),
                      normalize |->
                         [lowercase |-> GetKey(normalize, "lowercase").b,
                          strip_whitespace |->
                             GetKey(normalize, "strip_whitespace").b]]]>>,
            primary_metric |-> GetKey(scoring, "primary_metric").s],
        reporting |->
           [aggregate |-> <<[name |-> GetKey(aggregate, "name").s,
                             type |-> GetKey(aggregate, "type").s,
                             metric |-> GetKey(aggregate, "metric").s]>>]]

\* A file: absent, or text that yaml.safe_load parses to a document or not.
NoFile == [exists |-> FALSE, parses |-> FALSE, data |-> None]
BadYaml == [exists |-> TRUE, parses |-> FALSE, data |-> None]
YamlFile(data) == [exists |-> TRUE, parses |-> TRUE, data |-> data]

SpecLoadError(message) == [ok |-> FALSE, error |-> "SpecLoadError",
                           message |-> message, value |-> None]

\* load_spec(path), given the file at the path
load_spec(file) ==
    IF ~file.exists THEN SpecLoadError("Spec file not found")
    ELSE IF ~file.parses THEN SpecLoadError("Failed to parse spec file")
    ELSE IF file.data = None THEN SpecLoadError("Spec file is empty")
    ELSE IF ~IsMapping(file.data)
    THEN SpecLoadError("Spec must be a YAML/JSON object")
    ELSE IF ~ValidBenchmarkSpec(file.data) THEN SpecLoadError("Invalid spec")
    ELSE [ok |-> TRUE, error |-> "", message |-> "",
          value |-> BuildBenchmarkSpec(file.data)]

\* ----------------------------------------------------------------- dataset

\* A line of a dataset file: blank (empty or whitespace only), text that
\* json.loads parses to a value, or text that it does not parse.
BlankLine == [blank |-> TRUE, parses |-> FALSE, data |-> None]
GarbageLine == [blank |-> FALSE, parses |-> FALSE, data |-> None]
JsonLine(data) == [blank |-> FALSE, parses |-> TRUE, data |-> data]

\* A dataset file: absent, or its lines in order.
NoDataset == [exists |-> FALSE, lines |-> <<>>]
DatasetFile(lines) == [exists |-> TRUE, lines |-> lines]

RECURSIVE DropLeadingBlank(_)
DropLeadingBlank(lines) ==
    IF lines # <<>> /\ Head(lines).blank THEN DropLeadingBlank(Tail(lines))
    ELSE lines

RECURSIVE DropTrailingBlank(_)
DropTrailingBlank(lines) ==
    IF lines # <<>> /\ lines[Len(lines)].blank
    THEN DropTrailingBlank(SubSeq(lines, 1, Len(lines) - 1))
    ELSE lines

\* content.strip().split("\n"): the whitespace at both ends goes, blank lines
\* included, and what is left is cut at the line ends; nothing left is one
\* empty line.
StripSplit(lines) ==
    LET kept == DropTrailingBlank(DropLeadingBlank(lines))
    IN IF kept = <<>> THEN <<BlankLine>> ELSE kept

\* Case.model_validate(data) does not raise, validate_non_empty included
ValidCase(d) ==
    /\ IsMapping(d)
    /\ HasKey(d, "id") /\ IsStr(GetKey(d, "id")) /\ GetKey(d, "id").s # ""
    /\ HasKey(d, "input") /\ IsMapping(GetKey(d, "input"))
    /\ HasKey(d, "reference") /\ IsMapping(GetKey(d, "reference"))
    /\ GetKey(d, "input").kv # <<>>
    /\ GetKey(d, "reference").kv # <<>>

DatasetLoadError(message, line_num, id) ==
    [ok |-> FALSE, error |-> "DatasetLoadError", message |-> message,
     line_num |-> line_num, id |-> id, value |-> <<>>]

\* A loop that passes over a line it cannot load and keeps the others.
RECURSIVE LoadLinesSkippingInvalid(_, _, _, _)
LoadLinesSkippingInvalid(lines, line_num, seen_ids, loaded) ==
    IF line_num > Len(lines)
    THEN (IF loaded = <<>>
          THEN DatasetLoadError("Dataset contains no valid cases", 0, "")
          ELSE [ok |-> TRUE, error |-> "", message |-> "", line_num |-> 0,
                id |-> "", value |-> loaded])
    ELSE LET line == lines[line_num]
         IN IF line.blank \/ ~line.parses \/ ~ValidCase(line.data)
            THEN LoadLinesSkippingInvalid(lines, line_num + 1, seen_ids, loaded)
            ELSE LET case == Case(GetKey(line.data, "id").s,
                                  GetKey(line.data, "input"),
                                  GetKey(line.data, "reference"))
                 IN IF case.id \in seen_ids
                    THEN DatasetLoadError("Duplicate case ID", line_num, case.id)
                    ELSE LoadLinesSkippingInvalid(lines, line_num + 1,
                                                  seen_ids \cup {case.id},
                                                  Append(loaded, case))

\* The loop of load_dataset_jsonl over the lines, from line line_num on.
RECURSIVE LoadLines(_, _, _, _)
LoadLines(lines, line_num, seen_ids, loaded) ==
    IF line_num > Len(lines)
    THEN (IF loaded = <<>>
          THEN DatasetLoadError("Dataset contains no valid cases", 0, "")
          ELSE [ok |-> TRUE, error |-> "", message |-> "", line_num |-> 0,
                id |-> "", value |-> loaded])
    ELSE LET line == lines[line_num]
         IN IF line.blank
            THEN LoadLines(lines, line_num + 1, seen_ids, loaded)
            ELSE IF ~line.parses
            THEN DatasetLoadError("Invalid JSON on line", line_num, "")
            ELSE IF ~IsMapping(line.data)
            THEN DatasetLoadError("Each line must be a JSON object", line_num, "")
            ELSE IF ~ValidCase(line.data)
            THEN DatasetLoadError("Invalid case on line", line_num, "")
            ELSE LET case == Case(GetKey(line.data, "id").s,
                                  GetKey(line.data, "input"),
                                  GetKey(line.data, "reference"))
                 IN IF case.id \in seen_ids
                    THEN DatasetLoadError("Duplicate case ID", line_num, case.id)
                    ELSE LoadLines(lines, line_num + 1,
                                   seen_ids \cup {case.id}, Append(loaded, case))

\* load_dataset_jsonl(path), given the file at the path
load_dataset_jsonl(file) ==
    IF ~file.exists THEN DatasetLoadError("Dataset file not found", 0, "")
    ELSE LET lines == StripSplit(file.lines)
         IN IF lines = <<>> \/ (Len(lines) = 1 /\ lines[1].blank)
            THEN DatasetLoadError("Dataset file is empty", 0, "")
            ELSE LoadLines(lines, 1, {}, <<>>)

\* --------------------------------------------------------------------- cli

ValueError(message) == [ok |-> FALSE, message |-> message, value |-> None]

\* "=" in system_str
Contains(str, c) == \E i \in 1..Len(str) : str[i] = c

\* _parse_system(system_str)
_parse_system(system_str) ==
    IF ~Contains(system_str, "=")
    THEN ValueError("Invalid system format")
    ELSE LET at == CHOOSE i \in 1..Len(system_str) :
                      /\ system_str[i] = "="
                      /\ \A j \in 1..(i - 1) : system_str[j] # "="
             name == Strip(SubSeq(system_str, 1, at - 1))
             url == Strip(SubSeq(system_str, at + 1, Len(system_str)))
         IN IF name = <<>> THEN ValueError("System name cannot be empty")
            ELSE IF url = <<>> THEN ValueError("System URL cannot be empty")
            ELSE [ok |-> TRUE, message |-> "", value |-> SystemConfig(name, url)]

\* The loop of cmd_run over the selectors, with a malformed selector passed
\* over instead of ending the command.
RECURSIVE parse_systems_skipping(_, _)
parse_systems_skipping(selectors, parsed) ==
    IF selectors = <<>> THEN [ok |-> TRUE, value |-> parsed]
    ELSE LET r == _parse_system(Head(selectors))
         IN IF ~r.ok THEN parse_systems_skipping(Tail(selectors), parsed)
            ELSE parse_systems_skipping(Tail(selectors), Append(parsed, r.value))

\* The loop of cmd_run over args.systems: the first malformed selector ends it.
RECURSIVE parse_systems(_, _)
parse_systems(selectors, parsed) ==
    IF selectors = <<>> THEN [ok |-> TRUE, value |-> parsed]
    ELSE LET r == _parse_system(Head(selectors))
         IN IF ~r.ok THEN [ok |-> FALSE, value |-> <<>>]
            ELSE parse_systems(Tail(selectors), Append(parsed, r.value))

\* A specification document with the three path expressions and the protocol
\* as given, and every other field as load_spec requires it.
SpecDocument(protocol, output_json_path, pred_path, ref_path) ==
    JObj(<<
      [k |-> "id", v |-> JStr("bench")],
      [k |-> "name", v |-> JStr("Bench")],
      [k |-> "version", v |-> JNum(1)],
      [k |-> "dataset",
       v |-> JObj(<<[k |-> "path", v |-> JStr("dataset.jsonl")]>>)],
      [k |-> "contract",
       v |-> JObj(<<
          [k |-> "protocol", v |-> JStr(protocol)],
          [k |-> "request",
           v |-> JObj(<<[k |-> "method", v |-> JStr("POST")],
                        [k |-> "body_json_path", v |-> InputPath]>>)],
          [k |-> "response",
           v |-> JObj(<<[k |-> "output_json_path",
                         v |-> output_json_path]>>)]>>)],
      [k |-> "scoring",
       v |-> JObj(<<
          [k |-> "metrics",
           v |-> JList(<<JObj(<<
              [k |-> "name", v |-> JStr("exact_match")],
              [k |-> "type", v |-> JStr("exact_match")],
              [k |-> "args",
               v |-> JObj(<<
                  [k |-> "pred_path", v |-> pred_path],
                  [k |-> "ref_path", v |-> ref_path],
                  [k |-> "normalize",
                   v |-> JObj(<<[k |-> "lowercase", v |-> JBool(TRUE)],
                                [k |-> "strip_whitespace",
                                 v |-> JBool(TRUE)]>>)]>>)]>>)>>)],
          [k |-> "primary_metric", v |-> JStr("exact_match")]>>)],
      [k |-> "reporting",
       v |-> JObj(<<
          [k |-> "aggregate",
           v |-> JList(<<JObj(<<
              [k |-> "name", v |-> JStr("exact_match_rate")],
              [k |-> "type", v |-> JStr("mean")],
              [k |-> "metric", v |-> JStr("exact_match")]>>)>>)]>>)]>>)

\* The spec files a command is pointed at; the last two have a path
\* expression outside the grammar of eval_jsonpath.
SpecFiles ==
    {NoFile, BadYaml, YamlFile(None), YamlFile(JList(<<>>)),
     YamlFile(SpecDocument("grpc", PathRoot, PathA, PathA)),
     YamlFile(SpecDocument("http", PathRoot, PathA, PathA)),
     YamlFile(SpecDocument("http", PathA, PathRoot, PathA)),
     YamlFile(SpecDocument("http", JStr(<<"$", "[", "0", "]">>), PathA, PathA)),
     YamlFile(SpecDocument("http", PathRoot, JStr(<<"$", "[", "0", "]">>), PathA))}

\* A line {"id": ..., "input": ..., "reference": ...}
CaseLine(id, input, reference) ==
    JsonLine(JObj(<<[k |-> "id", v |-> JStr(id)], [k |-> "input", v |-> input],
                    [k |-> "reference", v |-> reference]>>))

\* The dataset files the spec's dataset path leads to.
DatasetFiles ==
    {NoDataset,
     DatasetFile(<<BlankLine, BlankLine>>),
     DatasetFile(<<CaseLine("c1", Answer("q", <<"1">>), Answer("a", <<"2">>)),
                   GarbageLine>>),
     DatasetFile(<<CaseLine("c1", Answer("q", <<"1">>), Answer("a", <<"2">>)),
                   CaseLine("c1", Answer("q", <<"2">>), Answer("a", <<"4">>))>>),
     DatasetFile(<<CaseLine("c1", Answer("q", <<"1">>), Answer("a", <<"2">>))>>),
     DatasetFile(<<CaseLine("c3", Answer("q", <<"3">>), Answer("b", <<"6">>)),
                   BlankLine,
                   CaseLine("c2", Answer("q", <<"2">>), Answer("a", <<"4">>)),
                   BlankLine>>)}

\* The values of --system: absent, or the selectors in the order given.
SelectorLists ==
    {None, JList(<<>>),
     JList(<<<<"a", "=", "u">>>>),
     JList(<<<<" ", "b", " ", "=", " ", "v", "=", "w">>, <<"a", "=", "u">>>>),
     JList(<<<<"a", "=", "u">>, <<"b">>>>),
     JList(<<<<"=", "u">>, <<"a", "=", "u">>>>),
     JList(<<<<"a", "=", "u">>, <<"b", "=", " ">>>>)}

\* argparse's Namespace for the two commands, with the files the paths name.
Namespaces ==
    {[command |-> "run", spec |-> f, dataset |-> d, systems |-> sel] :
        f \in SpecFiles, d \in DatasetFiles, sel \in SelectorLists}
    \cup {[command |-> "validate", spec |-> f, dataset |-> d, systems |-> None] :
            f \in SpecFiles, d \in DatasetFiles}

\* cmd_run up to the call of run_benchmark: what it returns, or the arguments
\* it calls run_benchmark with.
cmd_run_setup(ns) ==
    LET loaded_spec == load_spec(ns.spec)
        loaded_cases == load_dataset_jsonl(ns.dataset)
        parsed == parse_systems(ns.systems.xs, <<>>)
        returns(code) == [returns |-> TRUE, code |-> code, spec |-> None,
                          cases |-> <<>>, systems |-> <<>>]
    IN IF ~loaded_spec.ok THEN returns(1)
       ELSE IF ~loaded_cases.ok THEN returns(1)
       ELSE IF ns.systems = None \/ ns.systems.xs = <<>> THEN returns(1)
       ELSE IF ~parsed.ok THEN returns(1)
       ELSE [returns |-> FALSE, code |-> 0, spec |-> loaded_spec.value,
             cases |-> loaded_cases.value, systems |-> parsed.value]

InitCli ==
    /\ args \in Namespaces
    /\ exit_code = None
    /\ call = None
    /\ ret = None
    /\ spec = None
    /\ cases = <<>>
    /\ systems = <<>>
    /\ pc = "cli"
    /\ sys_idx = 0
    /\ case_idx = 0
    /\ case_results = <<>>
    /\ error_counter = <<>>
    /\ metric_values = <<>>
    /\ system_results = <<>>
    /\ started_at = None
    /\ now = 0
    /\ result = None
    /\ exc = ""
    /\ inv_log = <<>>
    /\ run_no = 1
    /\ first = None

\* cmd_validate(args)
CmdValidate ==
    /\ pc = "cli"
    /\ args.command = "validate"
    /\ exit_code' = (IF ~load_spec(args.spec).ok THEN 1
                     ELSE IF ~load_dataset_jsonl(args.dataset).ok THEN 1
                     ELSE 0)
    /\ pc' = "exited"
    /\ UNCHANGED <<inputs, sys_idx, case_idx, case_results, error_counter,
                   metric_values, system_results, started_at, now, result,
                   exc, inv_log, run_no, first, args, call, ret>>

\* cmd_run(args), from its entry to its return 1 or its call of run_benchmark
CmdRun ==
    /\ pc = "cli"
    /\ args.command = "run"
    /\ LET setup == cmd_run_setup(args)
       IN IF setup.returns
          THEN /\ exit_code' = setup.code
               /\ pc' = "exited"
               /\ UNCHANGED inputs
          ELSE /\ spec' = setup.spec
               /\ cases' = setup.cases
               /\ systems' = setup.systems
               /\ pc' = "start"
               /\ UNCHANGED exit_code
    /\ UNCHANGED <<sys_idx, case_idx, case_results, error_counter,
                   metric_values, system_results, started_at, now, result,
                   exc, inv_log, run_no, first, args, call, ret>>

\* cmd_run(args), from the return of run_benchmark to its return 0
CmdRunReturn ==
    /\ args # None
    /\ pc = "done"
    /\ exit_code' = 0
    /\ pc' = "exited"
    /\ UNCHANGED <<inputs, sys_idx, case_idx, case_results, error_counter,
                   metric_values, system_results, started_at, now, result,
                   exc, inv_log, run_no, first, args, call, ret>>

\* cmd_run(args) when run_benchmark raises: no except clause is around the
\* call, so the exception leaves cmd_run and nothing is returned.
CmdRunRaise ==
    /\ args # None
    /\ pc = "raised"
    /\ pc' = "crashed"
    /\ UNCHANGED <<inputs, sys_idx, case_idx, case_results, error_counter,
                   metric_values, system_results, started_at, now, result,
                   exc, inv_log, run_no, first, args, exit_code, call, ret>>

NextCli == CmdValidate \/ CmdRun \/ Next \/ CmdRunReturn \/ CmdRunRaise

SpecCli == InitCli /\ [][NextCli]_vars

\* ------------------------------------------------- functions on their own

\* No run is being made.
NoRun ==
    /\ spec = None
    /\ cases = <<>>
    /\ systems = <<>>
    /\ pc = "none"
    /\ sys_idx = 0
    /\ case_idx = 0
    /\ case_results = <<>>
    /\ error_counter = <<>>
    /\ metric_values = <<>>
    /\ system_results = <<>>
    /\ started_at = None
    /\ now = 0
    /\ result = None
    /\ exc = ""
    /\ inv_log = <<>>
    /\ run_no = 1
    /\ first = None

\* No command was given.
NoCommand == args = None /\ exit_code = None

run == <<spec, cases, systems, pc, sys_idx, case_idx, case_results,
         error_counter, metric_values, system_results, started_at, now,
         result, exc, inv_log, run_no, first>>

\* The statuses a response may carry, on both sides of each end of 2xx.
Statuses == {199, 200, 204, 299, 300, 404, 500}

\* The JSON values a body may parse to.
Bodies == {None, JNum(4), JStr(<<"n", "o">>), Answer("a", <<"2">>)}

\* Everything the transport may do with a request.
Transport ==
    {Timeout, ConnectError}
    \cup {Response(st, TRUE, v) : st \in Statuses, v \in Bodies}
    \cup {Response(st, FALSE, None) : st \in Statuses}

\* The calls invoke_case(system, body) of the tests, one per transport outcome.
InitInvoke ==
    /\ NoRun /\ NoCommand /\ ret = None
    /\ call \in
          {[fn |-> "invoke_case", system |-> sy, body |-> b, outcome |-> o] :
              sy \in SystemPool, b \in {Answer("q", <<"1">>), Answer("q", <<"2">>)},
              o \in Transport}

CallInvokeCase ==
    /\ call.fn = "invoke_case"
    /\ ret = None
    /\ ret' = invoke_case(call.system, call.body, call.outcome)
    /\ UNCHANGED <<run, args, exit_code, call>>

SpecInvoke == InitInvoke /\ [][CallInvokeCase]_vars

\* The lists of booleans of at most n values.
RECURSIVE BoolLists(_)
BoolLists(n) ==
    IF n = 0 THEN {<<>>}
    ELSE LET shorter == BoolLists(n - 1)
         IN shorter \cup {Append(l, b) : l \in {m \in shorter : Len(m) = n - 1},
                                         b \in BOOLEAN}

InitAggregate ==
    /\ NoRun /\ NoCommand /\ ret = None
    /\ call \in
          {[fn |-> "aggregate_mean", values |-> v] : v \in BoolLists(MaxValues)}

CallAggregateMean ==
    /\ call.fn = "aggregate_mean"
    /\ ret = None
    /\ ret' = aggregate_mean(call.values)
    /\ UNCHANGED <<run, args, exit_code, call>>

SpecAggregate == InitAggregate /\ [][CallAggregateMean]_vars

\* The texts over an alphabet of at most n characters.
RECURSIVE Texts(_, _)
Texts(alphabet, n) ==
    IF n = 0 THEN {<<>>}
    ELSE LET shorter == Texts(alphabet, n - 1)
         IN shorter \cup {Append(t, c) : t \in {u \in shorter : Len(u) = n - 1},
                                         c \in alphabet}

\* The characters paths are built from: the root, the dot, what a name may
\* start with, what it may only continue with, and what it may not hold.
PathAlphabet == {"$", ".", "a", "B", "_", "1", " ", "[", "-", "*"}

\* Longer paths: nested fields, and the malformed shapes of the tests.
LongPaths ==
    {<<"$", ".", "a", ".", "b">>,
     <<"$", ".", "a", ".", "b", ".", "c">>,
     <<"$", ".", "a", ".", "b", ".", "d">>,
     <<"$", ".", "a", ".", "b", ".", "c", ".", "d">>,
     <<"$", ".", "a", ".", "x", ".", "c">>,
     <<"$", ".", "x", ".", "b", ".", "c">>,
     <<"$", ".", "n", ".", "b">>,
     <<"$", ".", "l", ".", "b">>,
     <<"$", ".", "s", ".", "b", ".", "c">>,
     <<" ", "$", ".", "a", ".", "b", " ">>,
     <<"$", ".", "a", "1">>,
     <<"$", ".", "a", "[", "0", "]">>,
     <<"$", ".", "a", ".", "*">>,
     <<"$", ".", "a", ".", ".", "b">>,
     <<"$", ".", "a", ".", "b", ".">>,
     <<"$", ".", "a", ".", "1", "b">>,
     <<"$", ".", "a", "-", "b">>,
     <<"$", ".", "a", " ", ".", "b">>,
     <<"$", "[", "?", "(", "@", ".", "a", ")", "]">>}

\* The paths handed to eval_jsonpath: strings, and values that are not.
PathValues ==
    {JStr(t) : t \in Texts(PathAlphabet, MaxPathLen) \cup LongPaths}
    \cup {None, JNum(1), JList(<<JStr(<<"$">>)>>)}

\* {"a": {"b": {"c": null, "d": "x"}, "a": 1}, "n": null, "l": [1], "s": "x"}
Nested ==
    JObj(<<[k |-> <<"a">>,
            v |-> JObj(<<[k |-> <<"b">>,
                          v |-> JObj(<<[k |-> <<"c">>, v |-> None],
                                       [k |-> <<"d">>, v |-> JStr(<<"x">>)]>>)],
                         [k |-> <<"a">>, v |-> JNum(1)]>>)],
           [k |-> <<"n">>, v |-> None],
           [k |-> <<"l">>, v |-> JList(<<JNum(1)>>)],
           [k |-> <<"s">>, v |-> JStr(<<"x">>)]>>)

\* The values paths are evaluated against: every JSON type.
TreeValues ==
    {Nested, JObj(<<>>), JObj(<<[k |-> <<"B">>, v |-> JBool(FALSE)],
                               [k |-> <<"_">>, v |-> JNum(0)]>>),
     JList(<<Nested>>), JStr(<<"a">>), JNum(4), JBool(TRUE), None}

InitJsonpath ==
    /\ NoRun /\ NoCommand /\ ret = None
    /\ call \in
          {[fn |-> "eval_jsonpath", obj |-> v, path |-> q] :
              v \in TreeValues, q \in PathValues}

CallEvalJsonpath ==
    /\ call.fn = "eval_jsonpath"
    /\ ret = None
    /\ ret' = eval_jsonpath(call.obj, call.path)
    /\ UNCHANGED <<run, args, exit_code, call>>

SpecJsonpath == InitJsonpath /\ [][CallEvalJsonpath]_vars

\* The values compared: texts that differ in case, in the whitespace around
\* them and inside them, and values that are not strings.
ScoredValues ==
    {JStr(<<"4">>), JStr(<<" ", "4", " ">>), JStr(<<"F", "o", "u", "r">>),
     JStr(<<"f", "o", "u", "r">>), JStr(<<"\t", "F", "O", "U", "R", "\n">>),
     JStr(<<"a", " ", "b">>), JStr(<<"a", " ", " ", "b">>), JStr(<<"a", "b">>),
     JStr(<<"A", " ", "b", " ">>), JStr(<<"n", "o", "n", "e">>),
     JStr(<<"T", "r", "u", "e">>), JStr(<<"f", "a", "l", "s", "e">>),
     JStr(<<"[", "4", "]">>), JStr(<<>>),
     JNum(4), JNum(-4), None, JBool(TRUE), JBool(FALSE), JList(<<JNum(4)>>),
     Answer("a", <<"4">>)}

\* The paths of a metric: resolving ones, a missing field, a syntax error.
ScoredPaths ==
    {PathRoot, PathA, JStr(<<"$", ".", "b">>), JStr(<<"$", "[", "0", "]">>)}

InitScore ==
    /\ NoRun /\ NoCommand /\ ret = None
    /\ call \in
          {[fn |-> "score_exact_match", extracted_output |-> x,
            reference |-> JObj(<<[k |-> <<"a">>, v |-> r]>>), pred_path |-> pp,
            ref_path |-> rp] :
              x \in ScoredValues, r \in ScoredValues, pp \in ScoredPaths,
              rp \in ScoredPaths}

CallScoreExactMatch ==
    /\ call.fn = "score_exact_match"
    /\ ret = None
    /\ ret' = score_exact_match(call.extracted_output, call.reference,
                                call.pred_path, call.ref_path)
    /\ UNCHANGED <<run, args, exit_code, call>>

SpecScore == InitScore /\ [][CallScoreExactMatch]_vars

\* The lines a dataset file is made of: blank, unparseable, a JSON value that
\* is no object, objects that are no case, and cases, one id occurring twice.
DatasetLines ==
    {BlankLine, GarbageLine, JsonLine(JList(<<>>)),
     CaseLine("", Answer("q", <<"1">>), Answer("a", <<"2">>)),
     CaseLine("c3", JObj(<<>>), Answer("a", <<"2">>)),
     CaseLine("c1", Answer("q", <<"1">>), Answer("a", <<"2">>)),
     CaseLine("c2", Answer("q", <<"2">>), Answer("a", <<"4">>)),
     CaseLine("c1", Answer("q", <<"3">>), Answer("b", <<"6">>))}

\* The files load_dataset_jsonl is called on: every file of up to MaxLines
\* lines, and a case followed by an object that Case.model_validate rejects
\* for another reason: a field is missing, the id is a number, a field is a
\* list or an empty object.
InitLoad ==
    /\ NoRun /\ NoCommand /\ ret = None
    /\ call \in
          {[fn |-> "load_dataset_jsonl", file |-> f] :
              f \in {NoDataset}
                     \cup {DatasetFile(l) :
                              l \in UNION {[1..n -> DatasetLines] : n \in 0..MaxLines}}
                     \cup {DatasetFile(<<CaseLine("c2", Answer("q", <<"2">>),
                                                  Answer("a", <<"4">>)), l>>) :
                              l \in
                               {JsonLine(JObj(<<[k |-> "id", v |-> JStr("c1")],
                                                [k |-> "input", v |-> Answer("q", <<"1">>)]>>)),
                                JsonLine(JObj(<<[k |-> "input", v |-> Answer("q", <<"1">>)],
                                                [k |-> "reference", v |-> Answer("a", <<"2">>)]>>)),
                                CaseLine("c1", JList(<<>>), Answer("a", <<"2">>)),
                                CaseLine("c1", Answer("q", <<"1">>), JObj(<<>>)),
                                JsonLine(JObj(<<[k |-> "id", v |-> JNum(1)],
                                                [k |-> "input", v |-> Answer("q", <<"1">>)],
                                                [k |-> "reference", v |-> Answer("a", <<"2">>)]>>))}}}

CallLoadDatasetJsonl ==
    /\ call.fn = "load_dataset_jsonl"
    /\ ret = None
    /\ ret' = load_dataset_jsonl(call.file)
    /\ UNCHANGED <<run, args, exit_code, call>>

SpecLoad == InitLoad /\ [][CallLoadDatasetJsonl]_vars

\* The document with the value at a path of keys replaced (in every element
\* of a list on the way).
RECURSIVE SetAt(_, _, _)
SetAt(d, keys, v) ==
    IF keys = <<>> THEN v
    ELSE IF d.t = "list"
    THEN JList([i \in 1..Len(d.xs) |-> SetAt(d.xs[i], keys, v)])
    ELSE JObj([i \in 1..Len(d.kv) |->
                 IF d.kv[i].k = Head(keys)
                 THEN [k |-> d.kv[i].k, v |-> SetAt(d.kv[i].v, Tail(keys), v)]
                 ELSE d.kv[i]])

\* The document with the key at the end of a path removed.
RECURSIVE DropAt(_, _)
DropAt(d, keys) ==
    IF d.t = "list"
    THEN JList([i \in 1..Len(d.xs) |-> DropAt(d.xs[i], keys)])
    ELSE IF Len(keys) = 1
    THEN JObj(SelectSeq(d.kv, LAMBDA item : item.k # keys[1]))
    ELSE JObj([i \in 1..Len(d.kv) |->
                 IF d.kv[i].k = Head(keys)
                 THEN [k |-> d.kv[i].k, v |-> DropAt(d.kv[i].v, Tail(keys))]
                 ELSE d.kv[i]])

\* Fields holding a fixed word, fields holding a path, and all the fields of
\* the models but version.
WordFields ==
    {<<"contract", "protocol">>, <<"contract", "request", "method">>,
     <<"scoring", "metrics", "name">>, <<"scoring", "metrics", "type">>,
     <<"scoring", "primary_metric">>, <<"reporting", "aggregate", "type">>,
     <<"reporting", "aggregate", "metric">>}
PathFields ==
    {<<"contract", "request", "body_json_path">>,
     <<"contract", "response", "output_json_path">>,
     <<"scoring", "metrics", "args", "pred_path">>,
     <<"scoring", "metrics", "args", "ref_path">>}
TypedFields ==
    WordFields \cup PathFields
    \cup {<<"scoring", "metrics", "args", "normalize", "lowercase">>,
          <<"scoring", "metrics", "args", "normalize", "strip_whitespace">>,
          <<"scoring", "metrics">>, <<"reporting", "aggregate">>,
          <<"id">>, <<"name">>, <<"dataset">>, <<"dataset", "path">>,
          <<"contract">>, <<"contract", "request">>, <<"contract", "response">>,
          <<"scoring">>, <<"scoring", "metrics", "args">>,
          <<"scoring", "metrics", "args", "normalize">>, <<"reporting">>,
          <<"reporting", "aggregate", "name">>}

\* Values of a type no field but version takes.
WrongValues == {None, JNum(7), JBool(FALSE), JList(<<>>), JObj(<<>>)}

\* A document every model accepts.
GoodDocument == SpecDocument("http", PathRoot, PathA, PathA)

\* The documents a spec file holds: accepted ones, and ones that differ from
\* an accepted one in one field that is missing (the request's path missing
\* beside a key no model declares), of another type, another word, another
\* path, or a list of two.
SpecDocuments ==
    {GoodDocument, SpecDocument("http", PathA, PathRoot, PathA),
     SetAt(GoodDocument, <<"version">>, JStr("1.0")),
     SetAt(GoodDocument, <<"version">>, None),
     JObj(Append(GoodDocument.kv, [k |-> "notes", v |-> JStr("x")]))}
    \cup {DropAt(GoodDocument, p) :
             p \in (TypedFields \cup {<<"version">>})
                     \ {<<"contract", "request", "body_json_path">>}}
    \cup {SetAt(GoodDocument, <<"contract", "request">>,
                 JObj(<<[k |-> "method", v |-> JStr("POST")],
                        [k |-> "timeout", v |-> JNum(5)]>>))}
    \cup {SetAt(GoodDocument, p, v) : p \in TypedFields, v \in WrongValues}
    \cup {SetAt(GoodDocument, p, JStr("other")) : p \in WordFields}
    \cup {SetAt(GoodDocument, p, JStr(<<"$", ".", "x">>)) : p \in PathFields}
    \cup {SetAt(GoodDocument, p, JStr(<<"x", "[">>)) : p \in PathFields}
    \cup {SetAt(GoodDocument, p,
                 LET l == IF Len(p) = 2 /\ p[1] = "scoring"
                          THEN GetKey(GetKey(GoodDocument, "scoring"), "metrics")
                          ELSE GetKey(GetKey(GoodDocument, "reporting"),
                                      "aggregate")
                 IN JList(<<l.xs[1], l.xs[1]>>)) :
             p \in {<<"scoring", "metrics">>, <<"reporting", "aggregate">>}}

InitLoadSpec ==
    /\ NoRun /\ NoCommand /\ ret = None
    /\ call \in
          {[fn |-> "load_spec", file |-> f] :
              f \in {NoFile, BadYaml, YamlFile(None), YamlFile(JList(<<>>)),
                     YamlFile(JStr("text"))}
                     \cup {YamlFile(d) : d \in SpecDocuments}}

CallLoadSpec ==
    /\ call.fn = "load_spec"
    /\ ret = None
    /\ ret' = load_spec(call.file)
    /\ UNCHANGED <<run, args, exit_code, call>>

SpecLoadSpec == InitLoadSpec /\ [][CallLoadSpec]_vars

\* ------------------------------------------------------------------ claims

\* The error codes of the closed taxonomy, in lexicographic order.
LexOrder ==
    <<"http_error", "invalid_json", "metric_failed",
      "output_extraction_failed", "timeout">>

\* The CaseResult the run holds for a logged invocation, if it holds one.
HasResult(e) ==
    IF e.sys <= Len(system_results)
    THEN e.idx <= Len(system_results[e.sys].case_results)
    ELSE e.sys = sys_idx /\ e.idx <= Len(case_results)

ResultOf(e) ==
    IF e.sys <= Len(system_results)
    THEN system_results[e.sys].case_results[e.idx]
    ELSE case_results[e.idx]

\* What the three stages make of a logged invocation, each stage taken alone.
StageInvoke(e) == invoke_case(systems[e.sys], e.body, e.outcome)
StageExtract(e) ==
    extract_output(StageInvoke(e).value,
                   spec.contract.response.output_json_path)
StageScore(e) ==
    score_exact_match(StageExtract(e).value, cases[e.idx].reference,
                      spec.scoring.metrics[1].args.pred_path,
                      spec.scoring.metrics[1].args.ref_path)

\* The code of the first stage that fails, "" when none does.
FirstFailure(e) ==
    IF ~StageInvoke(e).ok THEN StageInvoke(e).code
    ELSE IF ~StageExtract(e).ok THEN StageExtract(e).code
    ELSE IF ~StageScore(e).ok THEN StageScore(e).code
    ELSE ""

\* Every CaseResult the run holds.
AllCaseResults ==
    {case_results[k] : k \in 1..Len(case_results)}
    \cup UNION {Range(system_results[i].case_results) :
                  i \in 1..Len(system_results)}
    \cup (IF result = None THEN {}
          ELSE UNION {Range(result.systems[i].case_results) :
                        i \in 1..Len(result.systems)})

\* C1: whatever the invocations meet, no exception leaves _run_case,
\* _run_system or run_benchmark, and every invocation that fails is held as
\* its case's CaseResult.error.
C1_NoExceptionEscapes ==
    /\ pc # "raised"
    /\ exc = ""
    /\ \A n \in 1..Len(inv_log) :
          FirstFailure(inv_log[n]) # "" =>
             /\ HasResult(inv_log[n])
             /\ ResultOf(inv_log[n]).error # None

\* C2: in a returned RunResult every system has one CaseResult per case, the
\* k-th carrying the id of the k-th case.
C2_CaseResultsFollowCases ==
    result # None =>
       \A i \in 1..Len(result.systems) :
          /\ Len(result.systems[i].case_results) = Len(cases)
          /\ \A k \in 1..Len(cases) :
                result.systems[i].case_results[k].case_id = cases[k].id

C2_Witness ==
    /\ result # None
    /\ Len(result.systems) = 2
    /\ Len(cases) = 2
    /\ result.systems[1].case_results[1].error.code = "timeout"
    /\ result.systems[1].case_results[2].error.code = "invalid_json"

\* C3: a case whose invocation answers 2xx JSON, whose output path resolves
\* and whose prediction and reference paths resolve ends with no error, the
\* extracted value as extracted_output and the normalized equality of the two
\* resolved values as its metric.
C3_SuccessfulCaseIsScored ==
    \A n \in 1..Len(inv_log) :
       LET e == inv_log[n]
       IN FirstFailure(e) = "" =>
             /\ HasResult(e)
             /\ ResultOf(e) =
                   CaseResult(e.case_id, StageExtract(e).value,
                              JObj(<<[k |-> "exact_match",
                                      v |-> StageScore(e).value]>>),
                              None)

\* C4: every CaseResult has exactly one of metrics and error, and carries an
\* extracted_output beside an error only when the error is metric_failed.
C4_MetricsXorError ==
    \A cr \in AllCaseResults :
       /\ (cr.metrics # None) # (cr.error # None)
       /\ (cr.error # None /\ cr.extracted_output # None) =>
             cr.error.code = "metric_failed"

C4_Witness ==
    /\ result # None
    /\ \E cr \in AllCaseResults :
          cr.error # None /\ cr.error.code = "output_extraction_failed"
    /\ \E cr \in AllCaseResults :
          cr.error # None /\ cr.error.code = "http_error"

\* C5: the stages of a case run in the order invoke, extract, score and stop
\* at the first that fails; the case's error code is that stage's code, and
\* a case carries no error when none fails.
C5_FirstFailingStageDecides ==
    \A n \in 1..Len(inv_log) :
       LET e == inv_log[n]
           code == FirstFailure(e)
       IN /\ e.stages =
                (IF ~StageInvoke(e).ok THEN <<"invoke">>
                 ELSE IF ~StageExtract(e).ok THEN <<"invoke", "extract">>
                 ELSE <<"invoke", "extract", "score">>)
          /\ HasResult(e)
          /\ IF code = "" THEN ResultOf(e).error = None
             ELSE ResultOf(e).error # None /\ ResultOf(e).error.code = code

\* The log entries of system i, and the metric values its cases should yield.
EntriesOf(i) == {n \in 1..Len(inv_log) : inv_log[n].sys = i}
ScoredOf(i) == {n \in EntriesOf(i) : FirstFailure(inv_log[n]) = ""}
TrueOf(i) == {n \in ScoredOf(i) : StageScore(inv_log[n]).value}

\* C6: once every case of a system has been run and the run is over, the
\* system's aggregate is true metrics over scored cases, 0.0 when no case was
\* scored; errored cases count in neither.
C6_AggregateOverScoredCases ==
    pc \in {"done", "raised"} =>
       \A i \in 1..Len(systems) :
          Cardinality(EntriesOf(i)) = Len(cases) =>
             /\ i <= Len(system_results)
             /\ DictGet(system_results[i].aggregates, "exact_match_rate") =
                   (IF ScoredOf(i) = {} THEN [num |-> 0, den |-> 1]
                    ELSE Float(Cardinality(TrueOf(i)), Cardinality(ScoredOf(i))))

\* The number of CaseResults of a SystemResult that carry an error code.
Occurrences(sr, code) ==
    Cardinality({k \in 1..Len(sr.case_results) :
                   /\ sr.case_results[k].error # None
                   /\ sr.case_results[k].error.code = code})

\* C7: error_counts holds, for each code that occurred, the number of
\* CaseResults carrying it, no other key, and its keys in lexicographic order.
C7_ErrorCountsSorted ==
    \A i \in 1..Len(system_results) :
       LET sr == system_results[i]
           keys == DictKeys(sr.error_counts)
       IN /\ \A c \in Range(LexOrder) :
                IF Occurrences(sr, c) > 0
                THEN /\ DictHas(sr.error_counts, c)
                     /\ DictGet(sr.error_counts, c) = Occurrences(sr, c)
                ELSE ~DictHas(sr.error_counts, c)
          /\ Range(keys) \subseteq Range(LexOrder)
          /\ \A a, b \in 1..Len(keys) :
                a < b =>
                   \E x, y \in 1..Len(LexOrder) :
                      x < y /\ LexOrder[x] = keys[a] /\ LexOrder[y] = keys[b]

C7_Witness ==
    \E i \in 1..Len(system_results) :
       LET sr == system_results[i]
       IN /\ Len(sr.case_results) = 2
          /\ sr.case_results[1].error.code = "timeout"
          /\ sr.case_results[2].error.code = "http_error"
          /\ DictKeys(sr.error_counts) = <<"http_error", "timeout">>

\* C8: a returned RunResult has one SystemResult per supplied system, the
\* i-th carrying the name of the i-th system, also when all its cases erred.
C8_SystemsFollowSupplied ==
    result # None =>
       /\ Len(result.systems) = Len(systems)
       /\ \A i \in 1..Len(systems) :
             result.systems[i].system_name = systems[i].name

C8_Witness ==
    /\ result # None
    /\ Len(systems) = 2
    /\ systems[1].name = "beta"
    /\ Len(cases) = 2
    /\ \A i \in 1..2 : \A k \in 1..2 :
          result.systems[i].case_results[k].error # None

\* C10: extracted_output is unset on a CaseResult whose case failed at
\* invocation or extraction, and is the extracted value on one whose case
\* failed at scoring, which is reported as metric_failed.
C10_ExtractedOutputByStage ==
    \A n \in 1..Len(inv_log) :
       LET e == inv_log[n]
           code == FirstFailure(e)
       IN /\ code \in {"timeout", "http_error", "invalid_json",
                       "output_extraction_failed"} =>
                HasResult(e) /\ ResultOf(e).extracted_output = None
          /\ code = "metric_failed" =>
                /\ HasResult(e)
                /\ ResultOf(e).error # None
                /\ ResultOf(e).error.code = "metric_failed"
                /\ ResultOf(e).extracted_output = StageExtract(e).value

\* The fields of a result document other than the two timestamps.
UntimedFields == {"benchmark_id", "benchmark_version", "dataset_path", "systems"}

C11_InvokeClassifies ==
    ret # None =>
       LET o == call.outcome
           timed_out == o.kind = "raises" /\ "TimeoutException" \in o.mro
           failed == o.kind = "raises" /\ ~timed_out
           non_2xx == o.kind = "response" /\ (o.status < 200 \/ o.status > 299)
           unparsed == o.kind = "response" /\ ~non_2xx /\ ~o.parses
       IN IF ~(timed_out \/ failed \/ non_2xx \/ unparsed)
          THEN ret.ok /\ ret.value = o.json
          ELSE /\ ~ret.ok
               /\ ret.code \in {"timeout", "http_error", "invalid_json"}
               /\ (ret.code = "timeout") = timed_out
               /\ (ret.code = "http_error") = (failed \/ non_2xx)
               /\ (ret.code = "invalid_json") = unparsed
               /\ (ret.http_status # None) = non_2xx
               /\ non_2xx => ret.http_status = JNum(o.status)

C11_Witness ==
    /\ ret # None
    /\ call.outcome = Timeout
    /\ "RequestError" \in call.outcome.mro
    /\ ret.code = "timeout"
    /\ ret.http_status = None

\* The five codes of the taxonomy.
ErrorCodes ==
    {"timeout", "http_error", "invalid_json", "output_extraction_failed",
     "metric_failed"}

\* Every SystemResult the run holds, returned or still being collected.
AllSystemResults ==
    Range(system_results)
    \cup (IF result = None THEN {} ELSE Range(result.systems))

\* C12: every ErrorInfo.code and every key of error_counts is one of the five
\* codes, and an ErrorInfo carries an http_status only under http_error.
C12_ClosedTaxonomy ==
    /\ \A cr \in AllCaseResults :
          cr.error # None =>
             /\ cr.error.code \in ErrorCodes
             /\ cr.error.http_status # None => cr.error.code = "http_error"
    /\ \A sr \in AllSystemResults :
          Range(DictKeys(sr.error_counts)) \subseteq ErrorCodes

C12_Witness ==
    /\ result # None
    /\ \E sr \in Range(result.systems) :
          /\ Len(sr.case_results) = 2
          /\ sr.case_results[1].error.code = "http_error"
          /\ sr.case_results[1].error.http_status = JNum(500)
          /\ sr.case_results[2].error.code = "http_error"
          /\ sr.case_results[2].error.http_status = None
    /\ \E sr \in Range(result.systems) :
          /\ sr.case_results[1].error.code = "timeout"
          /\ sr.case_results[2].error.code = "invalid_json"

\* The number of true values of a list.
CountTrue(v) == Cardinality({i \in 1..Len(v) : v[i]})

\* C13: aggregate_mean(v) is (number of true in v) / len(v) for a non-empty v
\* and 0.0 for the empty one, lies within [0, 1], and is the same for every
\* rearrangement of v.
C13_MeanOfBooleans ==
    ret # None =>
       LET v == call.values
       IN /\ v = <<>> => ret = [num |-> 0, den |-> 1]
          /\ v # <<>> => ret.num * Len(v) = CountTrue(v) * ret.den
          /\ ret.den > 0
          /\ 0 <= ret.num /\ ret.num <= ret.den
          /\ \A w \in BoolLists(Len(v)) :
                (Len(w) = Len(v) /\ CountTrue(w) = CountTrue(v)) =>
                   aggregate_mean(w) = ret

C13_Witness ==
    /\ ret # None
    /\ call.values = <<TRUE, TRUE, FALSE>>
    /\ ret = [num |-> 2, den |-> 3]

\* The spec loads, the dataset loads, a system is given and every selector
\* is well formed.
ValidationPasses ==
    /\ load_spec(args.spec).ok
    /\ load_dataset_jsonl(args.dataset).ok
    /\ args.systems # None
    /\ args.systems.xs # <<>>
    /\ \A i \in 1..Len(args.systems.xs) : _parse_system(args.systems.xs[i]).ok

\* C14: the run command calls run_benchmark and invokes a system only when the
\* spec, the dataset and every selector are valid; otherwise it returns 1 with
\* no invocation made, also when the selectors before the malformed one were
\* well formed.
C14_ValidationBeforeInvocation ==
    args.command = "run" =>
       /\ (inv_log # <<>> \/ pc \notin {"cli", "exited"}) => ValidationPasses
       /\ (~ValidationPasses /\ pc # "cli") =>
             /\ pc = "exited"
             /\ exit_code = 1
             /\ inv_log = <<>>
             /\ started_at = None

C14_Witness ==
    /\ args.command = "run"
    /\ load_spec(args.spec).ok
    /\ load_dataset_jsonl(args.dataset).ok
    /\ args.systems = JList(<<<<"a", "=", "u">>, <<"b">>>>)
    /\ pc = "exited"
    /\ exit_code = 1
    /\ inv_log = <<>>

\* C15: after validation has passed the run command returns 0 whatever the
\* invocations meet; the validate command returns 1 when the spec or the
\* dataset fails to load and 0 otherwise.
C15_ExitCodes ==
    /\ (args.command = "run" /\ ValidationPasses) =>
          /\ pc \notin {"raised", "crashed"}
          /\ pc = "exited" => exit_code = 0
    /\ (args.command = "validate" /\ pc = "exited") =>
          exit_code = (IF /\ load_spec(args.spec).ok
                          /\ load_dataset_jsonl(args.dataset).ok
                       THEN 0 ELSE 1)

\* A name of the grammar: [A-Za-z_][A-Za-z0-9_]*
IsName(seg) ==
    /\ seg # <<>>
    /\ seg[1] \in Letters \cup {"_"}
    /\ \A i \in 1..Len(seg) : seg[i] \in Letters \cup Digits \cup {"_"}

\* The names after the root of a trimmed path, cut at the dots.
FieldsOf(p) == IF Len(p) < 3 THEN <<>> ELSE Split(SubSeq(p, 3, Len(p)), ".")

\* The grammar: the root alone, or the root and one or more .name segments.
InGrammar(p) ==
    /\ p # <<>>
    /\ p[1] = "$"
    /\ \/ Len(p) = 1
       \/ /\ Len(p) >= 3
          /\ p[2] = "."
          /\ \A seg \in Range(FieldsOf(p)) : IsName(seg)

\* The call's path is a string that is in the grammar once trimmed.
Grammatical(q) == q.t = "str" /\ InGrammar(Strip(q.s))

\* The value a JSON object holds under a key.
Member(o, key) == (CHOOSE item \in Range(o.kv) : item.k = key).v
Holds(o, key) == o.t = "obj" /\ \E item \in Range(o.kv) : item.k = key

\* The first step of a chain of field accesses that cannot be made, from step
\* i on; 0 when every step can.
RECURSIVE FailingStep(_, _, _)
FailingStep(cur, fields, i) ==
    IF i > Len(fields) THEN 0
    ELSE IF ~Holds(cur, fields[i]) THEN i
    ELSE FailingStep(Member(cur, fields[i]), fields, i + 1)

\* v[f1]...[fn], for steps that can be made
RECURSIVE ValueAt(_, _, _)
ValueAt(v, fields, n) ==
    IF n = 0 THEN v ELSE Member(ValueAt(v, fields, n - 1), fields[n])

\* The text $.f1. ... .fn
RECURSIVE PathTo(_, _)
PathTo(fields, n) ==
    IF n = 0 THEN <<"$">> ELSE PathTo(fields, n - 1) \o <<".">> \o fields[n]

\* C16: for a path that is the root symbol, with or without whitespace around
\* it, eval_jsonpath returns the value it was given, whatever its type.
C16_RootIsIdentity ==
    (ret # None /\ call.path.t = "str" /\ Strip(call.path.s) = <<"$">>) =>
       ret.ok /\ ret.value = call.obj

C16_Witness ==
    /\ ret # None
    /\ call.path = JStr(<<" ", "$", " ">>)
    /\ call.obj = JList(<<Nested>>)
    /\ ret.ok

\* C17: eval_jsonpath gets past its syntax checks exactly for the paths of the
\* grammar; any other path fails as not a string, empty, lacking the root or
\* invalid syntax, with the same failure whatever the value, never as a
\* traversal failure.
C17_GrammarDecidesAcceptance ==
    ret # None =>
       IF Grammatical(call.path)
       THEN ret.ok \/ ret.kind \in {"null_access", "non_object", "field_not_found"}
       ELSE /\ ~ret.ok
            /\ ret.kind =
                  (IF call.path.t # "str" THEN "not_a_string"
                   ELSE IF Strip(call.path.s) = <<>> THEN "empty"
                   ELSE IF Strip(call.path.s)[1] # "$" THEN "no_root"
                   ELSE "invalid_syntax")
            /\ \A v \in TreeValues : eval_jsonpath(v, call.path) = ret

C17_Witness ==
    /\ ret # None
    /\ call.path = JStr(<<"$", ".", "a", "[", "0", "]">>)
    /\ call.obj = Nested
    /\ ret.kind = "invalid_syntax"

\* C18: for a path of the grammar whose every step finds an object holding
\* the next field, eval_jsonpath returns value[f1]...[fn], which is the field
\* fn of what the path without its last segment evaluates to; a field holding
\* null is returned as null.
C18_ResolvesByChaining ==
    (ret # None /\ Grammatical(call.path)) =>
       LET fields == FieldsOf(Strip(call.path.s))
           n == Len(fields)
       IN FailingStep(call.obj, fields, 1) = 0 =>
             /\ ret.ok
             /\ ret.value = ValueAt(call.obj, fields, n)
             /\ n >= 1 =>
                   LET parent ==
                          eval_jsonpath(call.obj, JStr(PathTo(fields, n - 1)))
                   IN parent.ok /\ ret.value = Member(parent.value, fields[n])

C18_Witness ==
    /\ ret # None
    /\ call.path = JStr(<<"$", ".", "a", ".", "b", ".", "c">>)
    /\ call.obj = Nested
    /\ ret.ok
    /\ ret.value = None

\* C19: when a step of a path of the grammar cannot be made, eval_jsonpath
\* fails at the first such step: null access if the value reached is null,
\* else non-object (naming its type) if it is not an object, else field not
\* found; the path reported ends with the failing field, and the segments
\* after it make no difference.
C19_FirstFailingStep ==
    (ret # None /\ Grammatical(call.path)) =>
       LET fields == FieldsOf(Strip(call.path.s))
           k == FailingStep(call.obj, fields, 1)
       IN k > 0 =>
             LET cur == ValueAt(call.obj, fields, k - 1)
             IN /\ ~ret.ok
                /\ ret.kind = (IF cur = None THEN "null_access"
                               ELSE IF cur.t # "obj" THEN "non_object"
                               ELSE "field_not_found")
                /\ ret.field = fields[k]
                /\ ret.traversed = PathTo(fields, k)
                /\ ret.type = TypeName(cur)
                /\ \A q \in LongPaths :
                      (/\ InGrammar(Strip(q))
                       /\ Len(FieldsOf(Strip(q))) >= k
                       /\ SubSeq(FieldsOf(Strip(q)), 1, k) = SubSeq(fields, 1, k))
                      => eval_jsonpath(call.obj, JStr(q)) = ret

C19_Witness ==
    /\ ret # None
    /\ call.path = JStr(<<"$", ".", "n", ".", "b">>)
    /\ call.obj = Nested
    /\ ret.kind = "null_access"
    /\ ret.traversed = <<"$", ".", "n", ".", "b">>

\* What the two paths of a scoring call resolve to.
Predicted == eval_jsonpath(call.extracted_output, call.pred_path)
Referred == eval_jsonpath(call.reference, call.ref_path)

\* The text of a value, lower-cased and trimmed at both ends.
Normal(v) == Strip(Lower(Str(v)))

\* C20: when both paths resolve, score_exact_match returns whether the texts
\* of the two values are equal once lower-cased and trimmed at both ends;
\* whitespace inside a text counts, swapping the two values gives the same
\* answer, and 4 matches "4", null matches "none", true matches "True".
C20_NormalizedTextEquality ==
    (ret # None /\ Predicted.ok /\ Referred.ok) =>
       LET pv == Predicted.value
           rv == Referred.value
           swapped == score_exact_match(rv, JObj(<<[k |-> <<"a">>, v |-> pv]>>),
                                        PathRoot, PathA)
       IN /\ ret.ok
          /\ ret.value = (Normal(pv) = Normal(rv))
          /\ swapped.ok /\ swapped.value = ret.value
          /\ (pv = JStr(<<"a", " ", "b">>) /\ rv = JStr(<<"a", "b">>))
                => ~ret.value
          /\ (pv = JStr(<<"a", " ", "b">>) /\ rv = JStr(<<"a", " ", " ", "b">>))
                => ~ret.value
          /\ (pv = JNum(4) /\ rv = JStr(<<"4">>)) => ret.value
          /\ (pv = None /\ rv = JStr(<<"n", "o", "n", "e">>)) => ret.value
          /\ (pv = JBool(TRUE) /\ rv = JStr(<<"T", "r", "u", "e">>)) => ret.value

C20_Witness ==
    /\ ret # None
    /\ call.pred_path = PathRoot
    /\ call.ref_path = PathA
    /\ call.extracted_output = JBool(TRUE)
    /\ call.reference = Answer("a", <<"T", "r", "u", "e">>)
    /\ ret.ok
    /\ ret.value

\* C21: score_exact_match fails exactly when one of the two paths cannot be
\* evaluated, always with code metric_failed; the failure names the predicted
\* value when the prediction path fails (the reference path failing or not)
\* and the reference value when only the reference path fails, wraps the
\* evaluator's failure, and carries no result of a comparison.
C21_MetricFailedNamesSide ==
    ret # None =>
       IF ~Predicted.ok
       THEN /\ ~ret.ok
            /\ ret.code = "metric_failed"
            /\ ret.message.side = "predicted"
            /\ ret.message.path = call.pred_path
            /\ ret.message.cause = Predicted
            /\ "value" \notin DOMAIN ret
       ELSE IF ~Referred.ok
       THEN /\ ~ret.ok
            /\ ret.code = "metric_failed"
            /\ ret.message.side = "reference"
            /\ ret.message.path = call.ref_path
            /\ ret.message.cause = Referred
            /\ "value" \notin DOMAIN ret
       ELSE ret.ok

C21_Witness ==
    /\ ret # None
    /\ call.pred_path = JStr(<<"$", "[", "0", "]">>)
    /\ call.ref_path = JStr(<<"$", ".", "b">>)
    /\ ~Predicted.ok
    /\ ~Referred.ok
    /\ Predicted.kind = "invalid_syntax"
    /\ Referred.kind = "field_not_found"
    /\ ret.message.side = "predicted"

\* Lines of the file as written, by position (the first line is line 1).
FileLines == call.file.lines

\* The line is text other than whitespace.
NonBlank(l) == ~l.blank

\* The line is a JSON object with a non-empty string id and non-empty objects
\* as input and reference.
WellFormed(l) ==
    /\ l.parses /\ l.data.t = "obj"
    /\ Holds(l.data, "id") /\ Member(l.data, "id").t = "str"
    /\ Member(l.data, "id").s # ""
    /\ Holds(l.data, "input") /\ Member(l.data, "input").t = "obj"
    /\ Member(l.data, "input").kv # <<>>
    /\ Holds(l.data, "reference") /\ Member(l.data, "reference").t = "obj"
    /\ Member(l.data, "reference").kv # <<>>

\* Positions of the non-blank lines, in file order.
NonBlankAt == {i \in 1..Len(FileLines) : NonBlank(FileLines[i])}

\* The i-th non-blank line of the file.
NthNonBlank(i) ==
    FileLines[CHOOSE p \in NonBlankAt :
                  Cardinality({q \in NonBlankAt : q <= p}) = i]

\* The line at position p repeats the id of a well-formed line before it.
RepeatsId(p) ==
    /\ NonBlank(FileLines[p]) /\ WellFormed(FileLines[p])
    /\ \E q \in 1..(p - 1) :
          /\ NonBlank(FileLines[q]) /\ WellFormed(FileLines[q])
          /\ Member(FileLines[q].data, "id") = Member(FileLines[p].data, "id")

\* The line at position p cannot be loaded.
Offends(p) ==
    NonBlank(FileLines[p]) /\ (~WellFormed(FileLines[p]) \/ RepeatsId(p))

\* C22: load_dataset_jsonl either raises DatasetLoadError, with no list, or
\* returns a non-empty list with one Case per non-blank line of the file, in
\* file order, whose ids are non-empty and pairwise distinct and whose inputs
\* and references are non-empty objects; it raises whenever the file is
\* absent, has no non-blank line, or has a line that cannot be loaded.
C22_AllCasesOrError ==
    ret # None =>
        /\ ret.ok \/ (ret.error = "DatasetLoadError" /\ ret.value = <<>>)
        /\ ret.ok =>
              /\ ret.value # <<>>
              /\ Len(ret.value) = Cardinality(NonBlankAt)
              /\ \A i \in 1..Len(ret.value) :
                    /\ WellFormed(NthNonBlank(i))
                    /\ ret.value[i].id = Member(NthNonBlank(i).data, "id").s
                    /\ ret.value[i].input = Member(NthNonBlank(i).data, "input")
                    /\ ret.value[i].reference
                           = Member(NthNonBlank(i).data, "reference")
                    /\ ret.value[i].id # ""
                    /\ ret.value[i].input.t = "obj"
                    /\ ret.value[i].input.kv # <<>>
                    /\ ret.value[i].reference.t = "obj"
                    /\ ret.value[i].reference.kv # <<>>
              /\ \A i, j \in 1..Len(ret.value) :
                    i # j => ret.value[i].id # ret.value[j].id
        /\ (\/ ~call.file.exists
            \/ NonBlankAt = {}
            \/ \E p \in 1..Len(FileLines) : Offends(p)) => ~ret.ok

\* A file of four lines, blank lines before and between its two cases, has
\* been loaded into two cases in file order.
C22_Witness ==
    /\ ret # None /\ ret.ok /\ Len(ret.value) = 2
    /\ Len(FileLines) = 4 /\ Cardinality(NonBlankAt) = 2
    /\ FileLines[1].blank /\ FileLines[3].blank
    /\ ret.value[1].id = "c2" /\ ret.value[2].id = "c1"

\* Position of the first line of the file that cannot be loaded, 0 if none.
FirstOffence ==
    IF \E p \in 1..Len(FileLines) : Offends(p)
    THEN CHOOSE p \in 1..Len(FileLines) :
             Offends(p) /\ \A q \in 1..(p - 1) : ~Offends(q)
    ELSE 0

\* C23: when the first line that cannot be loaded repeats the id of an
\* earlier line, the load fails with the duplicate-id error naming that id
\* and the number of that later line in the file, whatever follows it.
C23_FirstDuplicateReported ==
    (ret # None /\ call.file.exists /\ FirstOffence > 0
       /\ RepeatsId(FirstOffence)) =>
        /\ ~ret.ok /\ ret.message = "Duplicate case ID"
        /\ ret.id = Member(FileLines[FirstOffence].data, "id").s
        /\ ret.line_num = FirstOffence

\* C24: the line number of a dataset error is the position in the file of
\* the first line that cannot be loaded, blank lines counted wherever they
\* are, and the error says what is wrong with that line.
C24_LineNumbersCountBlankLines ==
    (ret # None /\ call.file.exists /\ FirstOffence > 0) =>
        /\ ~ret.ok /\ ret.line_num = FirstOffence
        /\ ret.message =
              (IF ~FileLines[FirstOffence].parses THEN "Invalid JSON on line"
               ELSE IF FileLines[FirstOffence].data.t # "obj"
               THEN "Each line must be a JSON object"
               ELSE IF ~WellFormed(FileLines[FirstOffence])
               THEN "Invalid case on line"
               ELSE "Duplicate case ID")

\* What a document holds at a path of keys, Absent where a key is missing.
Absent == [t |-> "absent"]
RECURSIVE Lookup(_, _)
Lookup(d, keys) ==
    IF keys = <<>> THEN d
    ELSE IF Holds(d, Head(keys)) THEN Lookup(Member(d, Head(keys)), Tail(keys))
    ELSE Absent

Has(d, keys) == Lookup(d, keys) # Absent

\* The only element of the list at a path, Absent unless it is such a list.
OnlyOf(d, keys) ==
    IF Lookup(d, keys).t = "list" /\ Len(Lookup(d, keys).xs) = 1
    THEN Lookup(d, keys).xs[1]
    ELSE Absent

\* The document has every required field and the fixed values: protocol
\* http, method POST, body taken from $.input, one exact_match metric named
\* as primary_metric with both normalization flags true, one mean aggregate
\* over that metric.
Conforms(d) ==
    LET metric == OnlyOf(d, <<"scoring", "metrics">>)
        aggregate == OnlyOf(d, <<"reporting", "aggregate">>)
    IN /\ d.t = "obj"
       /\ Has(d, <<"id">>) /\ Has(d, <<"name">>) /\ Has(d, <<"version">>)
       /\ Has(d, <<"dataset", "path">>)
       /\ Lookup(d, <<"contract", "protocol">>) = JStr("http")
       /\ Lookup(d, <<"contract", "request", "method">>) = JStr("POST")
       /\ Lookup(d, <<"contract", "request", "body_json_path">>)
             = JStr(<<"$", ".", "i", "n", "p", "u", "t">>)
       /\ Has(d, <<"contract", "response", "output_json_path">>)
       /\ metric # Absent
       /\ Lookup(metric, <<"type">>) = JStr("exact_match")
       /\ Has(metric, <<"name">>)
       /\ Lookup(metric, <<"name">>) = Lookup(d, <<"scoring", "primary_metric">>)
       /\ Has(metric, <<"args", "pred_path">>)
       /\ Has(metric, <<"args", "ref_path">>)
       /\ Lookup(metric, <<"args", "normalize", "lowercase">>) = JBool(TRUE)
       /\ Lookup(metric, <<"args", "normalize", "strip_whitespace">>)
             = JBool(TRUE)
       /\ aggregate # Absent
       /\ Has(aggregate, <<"name">>)
       /\ Lookup(aggregate, <<"type">>) = JStr("mean")
       /\ Lookup(aggregate, <<"metric">>) = Lookup(metric, <<"name">>)

\* C25: load_spec returns a BenchmarkSpec only for a document that has
\* every required field and the fixed values; any other document, an empty
\* one and one that is no object fail with SpecLoadError, and load_spec
\* fails in no other way.
C25_OnlyConformingSpecsLoad ==
    ret # None =>
        /\ ret.ok =>
              /\ call.file.exists /\ call.file.parses
              /\ Conforms(call.file.data)
              /\ ret.value # None
        /\ ~ret.ok => (ret.error = "SpecLoadError" /\ ret.value = None)
        /\ (\/ call.file.data = None
            \/ call.file.data.t # "obj"
            \/ ~Conforms(call.file.data)) => ~ret.ok

\* A document that differs from an accepted one only in listing its metric
\* twice has been refused.
C25_Witness ==
    /\ ret # None /\ ~ret.ok /\ ret.error = "SpecLoadError"
    /\ call.file.parses /\ call.file.data.t = "obj"
    /\ Lookup(call.file.data, <<"scoring", "metrics">>).t = "list"
    /\ Len(Lookup(call.file.data, <<"scoring", "metrics">>).xs) = 2
    /\ Has(call.file.data, <<"scoring", "primary_metric">>)
    /\ OnlyOf(call.file.data, <<"reporting", "aggregate">>) # Absent

\* C26: started_at is read once, before any invocation, and finished_at once,
\* when every system has ended and with no invocation after it; the RunResult
\* carries both, finished_at not before started_at, whether or not the run
\* made any invocation.
C26_TimestampsAtRunBoundaries ==
    /\ [](inv_log # <<>> => started_at # None)
    /\ [](result # None =>
            /\ pc = "done"
            /\ result.started_at = started_at
            /\ result.finished_at.n >= result.started_at.n)
    /\ [][/\ started_at' # started_at => (started_at = None /\ inv_log = <<>>)
          /\ result' # result =>
                /\ result = None
                /\ sys_idx > Len(systems)
                /\ inv_log' = inv_log
          /\ result # None =>
                (inv_log' = inv_log /\ started_at' = started_at)]_vars

\* A run of two systems over two cases has returned, its finish later than
\* its start.
C26_Witness ==
    /\ result # None /\ Len(systems) = 2 /\ Len(cases) = 2 /\ Len(inv_log) = 4
    /\ result.started_at = JNum(0) /\ result.finished_at = JNum(1)

\* The n-th invocation of a run in system-major order: which system, which
\* case.
SystemOf(n) == ((n - 1) \div Len(cases)) + 1
CaseOf(n) == ((n - 1) % Len(cases)) + 1

\* C27: the invocations made so far are the leading pairs (system, case) in
\* system-major order, one invocation each, the body being the case's input;
\* when run_benchmark has ended, every pair has been invoked:
\* len(systems) * len(cases) invocations in all.
C27_OneInvocationPerPair ==
    /\ Len(inv_log) <= Len(systems) * Len(cases)
    /\ \A n \in 1..Len(inv_log) :
          /\ inv_log[n].sys = SystemOf(n)
          /\ inv_log[n].idx = CaseOf(n)
          /\ inv_log[n].system = systems[SystemOf(n)].name
          /\ inv_log[n].case_id = cases[CaseOf(n)].id
          /\ inv_log[n].body = cases[CaseOf(n)].input
    /\ pc \in {"done", "raised"} =>
          Len(inv_log) = Len(systems) * Len(cases)

\* C28: the third stage of a case is the scorer: no exception leaves
\* _run_case, and every case whose invocation and extraction succeeded has a
\* CaseResult with metrics or with a metric_failed error.
C28_ScorerReached ==
    /\ pc # "raised"
    /\ \A n \in 1..Len(inv_log) :
          (StageInvoke(inv_log[n]).ok /\ StageExtract(inv_log[n]).ok) =>
             /\ HasResult(inv_log[n])
             /\ \/ ResultOf(inv_log[n]).metrics # None
                \/ /\ ResultOf(inv_log[n]).error # None
                   /\ ResultOf(inv_log[n]).error.code = "metric_failed"

\* The sum of the values of a dict of counts.
RECURSIVE SumOfCounts(_)
SumOfCounts(d) == IF d = <<>> THEN 0 ELSE Head(d).v + SumOfCounts(Tail(d))

\* How many results of a list have an error, and how many have metrics.
Errored(results) ==
    Cardinality({k \in 1..Len(results) : results[k].error # None})
Measured(results) ==
    Cardinality({k \in 1..Len(results) : results[k].metrics # None})

\* How often a dict of counts has counted a code, 0 when the code is no key.
Counted(d, code) ==
    IF \E item \in Range(d) : item.k = code
    THEN (CHOOSE item \in Range(d) : item.k = code).v
    ELSE 0

\* C29: in every SystemResult the values of error_counts are at least 1 and
\* add up to the number of results with an error, which with the number of
\* results with metrics makes len(cases); the booleans collected for the
\* aggregator are as many as the results with metrics; and each count of a
\* system is, after every system that has ended since, the number of that
\* system's own invocations that failed with the code, whatever the other
\* systems met.
C29_TalliesConsistent ==
    /\ Len(metric_values) = Measured(case_results)
    /\ SumOfCounts(error_counter) = Errored(case_results)
    /\ Errored(case_results) + Len(metric_values) = Len(case_results)
    /\ \A item \in Range(error_counter) : item.v >= 1
    /\ (pc = "systems" /\ system_results # <<>>) =>
          case_results = system_results[Len(system_results)].case_results
    /\ \A i \in 1..Len(system_results) :
          LET sr == system_results[i]
          IN /\ SumOfCounts(sr.error_counts) = Errored(sr.case_results)
             /\ \A item \in Range(sr.error_counts) : item.v >= 1
             /\ Errored(sr.case_results) + Measured(sr.case_results) = Len(cases)
    /\ pc = "systems" =>
          \A i \in 1..Len(system_results) :
             LET sr == system_results[i]
                 own == [n \in EntriesOf(i) |-> FirstFailure(inv_log[n])]
             IN /\ \A code \in ErrorCodes :
                      Counted(sr.error_counts, code) =
                         Cardinality({n \in EntriesOf(i) : own[n] = code})
                /\ Measured(sr.case_results) =
                      Cardinality({n \in EntriesOf(i) : own[n] = ""})
    /\ result # None => result.systems = system_results

\* Two systems have been run over the same two cases: the first met two
\* timeouts, the second an error status and a body lacking the output field.
C29_Witness ==
    /\ Len(system_results) = 2 /\ Len(cases) = 2
    /\ system_results[1].error_counts = <<[k |-> "timeout", v |-> 2]>>
    /\ system_results[2].error_counts =
          <<[k |-> "http_error", v |-> 1],
            [k |-> "output_extraction_failed", v |-> 1]>>

\* The three path expressions of the document the command is given.
OutputPathGiven ==
    Lookup(args.spec.data, <<"contract", "response", "output_json_path">>)
PredPathGiven ==
    Lookup(OnlyOf(args.spec.data, <<"scoring", "metrics">>),
           <<"args", "pred_path">>)
RefPathGiven ==
    Lookup(OnlyOf(args.spec.data, <<"scoring", "metrics">>),
           <<"args", "ref_path">>)

\* The command is a run over a document with every required field and fixed
\* value, whatever its path expressions, a dataset that loads and well-formed
\* selectors, and cmd_run has loaded them.
RunOfConformingSpec ==
    /\ args.command = "run" /\ pc # "cli"
    /\ args.spec.exists /\ args.spec.parses /\ Conforms(args.spec.data)
    /\ load_dataset_jsonl(args.dataset).ok
    /\ args.systems # None /\ args.systems.xs # <<>>
    /\ \A i \in 1..Len(args.systems.xs) : _parse_system(args.systems.xs[i]).ok

\* C30: a document whose path expressions are strings outside the grammar is
\* loaded and run; with such an output path every case whose invocation
\* succeeds ends with output_extraction_failed, with such a prediction or
\* reference path every case that reaches scoring ends with metric_failed,
\* and the run fails neither at validation nor with an exception.
C30_PathSyntaxFailsPerCase ==
    RunOfConformingSpec =>
       /\ spec # None
       /\ spec.contract.response.output_json_path = OutputPathGiven
       /\ spec.scoring.metrics[1].args.pred_path = PredPathGiven
       /\ spec.scoring.metrics[1].args.ref_path = RefPathGiven
       /\ (~Grammatical(OutputPathGiven) \/ ~Grammatical(PredPathGiven)
             \/ ~Grammatical(RefPathGiven)) =>
             /\ pc \notin {"raised", "crashed"}
             /\ pc = "exited" => exit_code = 0
       /\ ~Grammatical(OutputPathGiven) =>
             \A n \in 1..Len(inv_log) :
                StageInvoke(inv_log[n]).ok =>
                   /\ HasResult(inv_log[n])
                   /\ ResultOf(inv_log[n]).error # None
                   /\ ResultOf(inv_log[n]).error.code
                         = "output_extraction_failed"
       /\ (~Grammatical(PredPathGiven) \/ ~Grammatical(RefPathGiven)) =>
             \A n \in 1..Len(inv_log) :
                (StageInvoke(inv_log[n]).ok /\ StageExtract(inv_log[n]).ok) =>
                   /\ HasResult(inv_log[n])
                   /\ ResultOf(inv_log[n]).error # None
                   /\ ResultOf(inv_log[n]).error.code = "metric_failed"


====
